---------------------------- MODULE Spec2Model ----------------------------
(***************************************************************************)
(* Model of the audiobook-pipeline library placement engine:               *)
(*   library_index.py  (LibraryIndex and its author helpers),              *)
(*   ops/organize.py   (parse_path, build_plex_path, name normalisation),  *)
(*   sanitize.py       (sanitize_filename),                                *)
(*   stages/organize.py (the organize stage).                              *)
(* Names are TLA+ strings; every text function works on the string's       *)
(* characters, as the Python code does.                                    *)
(***************************************************************************)
EXTENDS Integers, Sequences, FiniteSets, TLC

(***************************************************************************)
(* Characters and strings                                                  *)
(***************************************************************************)

\* str -> sequence of one-character strings, and back
Chars(s) == [i \in 1..Len(s) |-> SubSeq(s, i, i)]

RECURSIVE Join(_)
Join(cs) == IF cs = <<>> THEN "" ELSE Head(cs) \o Join(Tail(cs))

UpperLetters == Chars("ABCDEFGHIJKLMNOPQRSTUVWXYZ")
LowerLetters == Chars("abcdefghijklmnopqrstuvwxyz")
Digits == {"0", "1", "2", "3", "4", "5", "6", "7", "8", "9"}

Range(f) == {f[i] : i \in DOMAIN f}

UpperSet == Range(UpperLetters)
LowerSet == Range(LowerLetters)
\* \w of the re module on the characters used here
WordSet == UpperSet \cup LowerSet \cup Digits \cup {"_"}
LowerOf == [c \in UpperSet |-> LowerLetters[CHOOSE i \in 1..26 : UpperLetters[i] = c]]

IsUpper(c) == c \in UpperSet
IsLowerAZ(c) == c \in LowerSet
IsDigit(c) == c \in Digits
IsWord(c) == c \in WordSet
\* \s of the re module on the characters used here
IsSpace(c) == c = " "

\* str.lower() on one character
LowerChar(c) == IF c \in UpperSet THEN LowerOf[c] ELSE c

\* str.lower()
LowerCs(cs) == [i \in 1..Len(cs) |-> LowerChar(cs[i])]
Lower(s) == Join(LowerCs(Chars(s)))

\* first index >= i whose character does not satisfy the class (Len+1 when none)
RECURSIVE SkipSpace(_, _)
SkipSpace(cs, i) ==
    IF i <= Len(cs) /\ IsSpace(cs[i]) THEN SkipSpace(cs, i + 1) ELSE i

RECURSIVE SkipWord(_, _)
SkipWord(cs, i) ==
    IF i <= Len(cs) /\ IsWord(cs[i]) THEN SkipWord(cs, i + 1) ELSE i

\* str.strip() / lstrip() / rstrip() with a set of characters
RECURSIVE LStripSet(_, _)
LStripSet(cs, set) ==
    IF cs # <<>> /\ Head(cs) \in set THEN LStripSet(Tail(cs), set) ELSE cs

RECURSIVE RStripSet(_, _)
RStripSet(cs, set) ==
    IF cs # <<>> /\ cs[Len(cs)] \in set
    THEN RStripSet(SubSeq(cs, 1, Len(cs) - 1), set)
    ELSE cs

StripCs(cs) == RStripSet(LStripSet(cs, {" "}), {" "})

\* re.sub(r"\s+", " ", s): every run of whitespace becomes one space
RECURSIVE CollapseSpace(_)
CollapseSpace(cs) ==
    IF cs = <<>> THEN <<>>
    ELSE IF IsSpace(Head(cs))
         THEN <<" ">> \o CollapseSpace(LStripSet(cs, {" "}))
         ELSE <<Head(cs)>> \o CollapseSpace(Tail(cs))

\* first index >= i holding a space (Len+1 when none)
RECURSIVE SkipNonSpace(_, _)
SkipNonSpace(cs, i) ==
    IF i <= Len(cs) /\ ~IsSpace(cs[i]) THEN SkipNonSpace(cs, i + 1) ELSE i

\* str.split(): the whitespace-separated words, in order
RECURSIVE SplitWords(_)
SplitWords(cs) ==
    LET t == LStripSet(cs, {" "})
        e == SkipNonSpace(t, 1)
    IN  IF t = <<>> THEN <<>>
        ELSE <<Join(SubSeq(t, 1, e - 1))>> \o SplitWords(SubSeq(t, e, Len(t)))

\* whether the characters of word w stand at cs[i..], compared case-insensitively
MatchesAtCI(cs, i, w) ==
    /\ i + Len(w) - 1 <= Len(cs)
    /\ LowerCs(SubSeq(cs, i, i + Len(w) - 1)) = LowerCs(Chars(w))

\* first index >= i holding character c (0 when none)
RECURSIVE IndexOf(_, _, _)
IndexOf(cs, c, i) ==
    IF i > Len(cs) THEN 0
    ELSE IF cs[i] = c THEN i ELSE IndexOf(cs, c, i + 1)

(***************************************************************************)
(* ops/organize.py: name normalisation and near-match                      *)
(***************************************************************************)

\* re.sub(r"\s*\(\d{4}\)", "", s) at position i: the end of a match starting at i, or 0
YearParenEnd(cs, i) ==
    LET j == SkipSpace(cs, i)
    IN  IF /\ j + 5 <= Len(cs)
           /\ cs[j] = "("
           /\ \A k \in (j + 1)..(j + 4) : IsDigit(cs[k])
           /\ cs[j + 5] = ")"
        THEN j + 5 ELSE 0

\* re.sub(r"\s*\([^)]*\)", "", s) at position i: the end of a match starting at i, or 0
AnyParenEnd(cs, i) ==
    LET j == SkipSpace(cs, i)
    IN  IF j <= Len(cs) /\ cs[j] = "(" THEN IndexOf(cs, ")", j + 1) ELSE 0

RECURSIVE StripYearParens(_, _)
StripYearParens(cs, i) ==
    IF i > Len(cs) THEN <<>>
    ELSE LET e == YearParenEnd(cs, i)
         IN  IF e > 0 THEN StripYearParens(cs, e + 1)
             ELSE <<cs[i]>> \o StripYearParens(cs, i + 1)

RECURSIVE StripAnyParens(_, _)
StripAnyParens(cs, i) ==
    IF i > Len(cs) THEN <<>>
    ELSE LET e == AnyParenEnd(cs, i)
         IN  IF e > 0 THEN StripAnyParens(cs, e + 1)
             ELSE <<cs[i]>> \o StripAnyParens(cs, i + 1)

\* re.sub(r"[^\w\s]", "", s)
StripPunct(cs) == SelectSeq(cs, LAMBDA c : IsWord(c) \/ IsSpace(c))

\* if s.endswith("s"): s = s[:-1]
StripOneS(cs) ==
    IF cs # <<>> /\ cs[Len(cs)] = "s" THEN SubSeq(cs, 1, Len(cs) - 1) ELSE cs

_normalize_for_compare(name) ==
    Join(StripOneS(StripCs(CollapseSpace(StripPunct(
        StripAnyParens(StripYearParens(LowerCs(Chars(name)), 1), 1))))))

\* set(norm.split())
Tokens(norm) == Range(SplitWords(Chars(norm)))

\* the token-set rules of _is_near_match with the desired name taken for the
\* smaller one
NearTokens_desired_smaller(desired_tokens, existing_tokens) ==
    IF Cardinality(desired_tokens) < 2 /\ Cardinality(existing_tokens) < 2 THEN FALSE
    ELSE IF desired_tokens \subseteq existing_tokens /\ Cardinality(desired_tokens) >= 2
         THEN TRUE
    ELSE /\ desired_tokens \cup existing_tokens # {}
         /\ 10 * Cardinality(desired_tokens \cap existing_tokens)
               >= 7 * Cardinality(desired_tokens \cup existing_tokens)

\* the token-set rules of _is_near_match
NearTokens(desired_tokens, existing_tokens) ==
    LET \* sorted([desired, existing], key=len) is stable: desired first on a tie
        smaller == IF Cardinality(existing_tokens) < Cardinality(desired_tokens)
                   THEN existing_tokens ELSE desired_tokens
        larger == IF Cardinality(existing_tokens) < Cardinality(desired_tokens)
                  THEN desired_tokens ELSE existing_tokens
        intersection == desired_tokens \cap existing_tokens
        union == desired_tokens \cup existing_tokens
    IN  IF Cardinality(desired_tokens) < 2 /\ Cardinality(existing_tokens) < 2
        THEN FALSE
        ELSE IF smaller \subseteq larger /\ Cardinality(smaller) >= 2 THEN TRUE
        \* len(intersection) / len(union) >= 0.7
        ELSE union # {} /\ 10 * Cardinality(intersection) >= 7 * Cardinality(union)

_is_near_match(desired_norm, existing_norm) ==
    IF desired_norm = existing_norm THEN TRUE
    ELSE NearTokens(Tokens(desired_norm), Tokens(existing_norm))

(***************************************************************************)
(* library_index.py: author-name helpers                                   *)
(***************************************************************************)

RoleWords == <<"editor", "translator", "narrator", "foreword", "introduction">>
ParenRoles == <<"Author", "Editor", "Translator", "Narrator">>

\* r",?\s+\w+\s*-\s*(editor|translator|narrator|foreword|introduction)\b.*$"
\* (IGNORECASE): whether a match starts at position i
RoleSuffixAt(cs, i) ==
    LET p == IF cs[i] = "," THEN i + 1 ELSE i
        q == SkipSpace(cs, p)
        r == SkipWord(cs, q)
        t == SkipSpace(cs, r)
        u == SkipSpace(cs, t + 1)
    IN  /\ q > p
        /\ r > q
        /\ t <= Len(cs) /\ cs[t] = "-"
        /\ \E k \in DOMAIN RoleWords :
              /\ MatchesAtCI(cs, u, RoleWords[k])
              /\ LET e == u + Len(RoleWords[k])
                 IN  e > Len(cs) \/ ~IsWord(cs[e])

\* the first regular expression of _clean_author_name: cut at the leftmost match
StripRoleSuffix(cs) ==
    LET starts == {i \in 1..Len(cs) : RoleSuffixAt(cs, i)}
    IN  IF starts = {} THEN cs
        ELSE SubSeq(cs, 1, (CHOOSE i \in starts : \A j \in starts : i <= j) - 1)

\* r"\s*\((Author|Editor|Translator|Narrator)\)" (IGNORECASE): the end of a match
\* starting at i, or 0
ParenRoleEnd(cs, i) ==
    LET j == SkipSpace(cs, i)
        hits == {k \in DOMAIN ParenRoles :
                    /\ j <= Len(cs) /\ cs[j] = "("
                    /\ MatchesAtCI(cs, j + 1, ParenRoles[k])
                    /\ j + 1 + Len(ParenRoles[k]) <= Len(cs)
                    /\ cs[j + 1 + Len(ParenRoles[k])] = ")"}
    IN  IF hits = {} THEN 0
        ELSE j + 1 + Len(ParenRoles[CHOOSE k \in hits : \A h \in hits : k <= h])

RECURSIVE StripParenRoles(_, _)
StripParenRoles(cs, i) ==
    IF i > Len(cs) THEN <<>>
    ELSE LET e == ParenRoleEnd(cs, i)
         IN  IF e > 0 THEN StripParenRoles(cs, e + 1)
             ELSE <<cs[i]>> \o StripParenRoles(cs, i + 1)

_clean_author_name(name) ==
    Join(StripCs(StripParenRoles(StripRoleSuffix(Chars(name)), 1)))

\* r",\s*|\s+and\s+": whether a separator starts at position i
AuthorSepAt(cs, i) ==
    \/ cs[i] = ","
    \/ LET q == SkipSpace(cs, i)
       IN  /\ q > i
           /\ q + 3 <= Len(cs)
           /\ SubSeq(cs, q, q + 2) = <<"a", "n", "d">>
           /\ IsSpace(cs[q + 3])

\* re.split(r",\s*|\s+and\s+", s)[0]
FirstAuthor(cs) ==
    LET seps == {i \in 1..Len(cs) : AuthorSepAt(cs, i)}
    IN  IF seps = {} THEN cs
        ELSE SubSeq(cs, 1, (CHOOSE i \in seps : \A j \in seps : i <= j) - 1)

\* words[-1].lower().rstrip(".,;:"), "" when there is no word
LastWordSurname(words) ==
    IF words = <<>> THEN ""
    ELSE Join(RStripSet(LowerCs(Chars(words[Len(words)])), {".", ",", ";", ":"}))

_extract_surname(name) ==
    IF name = "" THEN ""
    ELSE LastWordSurname(SplitWords(StripCs(FirstAuthor(Chars(_clean_author_name(name))))))

\* re.sub(r"([a-z])\.([a-z])", r"\1. \2", s), one pass
RECURSIVE ExpandInitials(_, _)
ExpandInitials(cs, i) ==
    IF i > Len(cs) THEN <<>>
    ELSE IF /\ i + 2 <= Len(cs)
            /\ IsLowerAZ(cs[i]) /\ cs[i + 1] = "." /\ IsLowerAZ(cs[i + 2])
         THEN <<cs[i], ".", " ", cs[i + 2]>> \o ExpandInitials(cs, i + 3)
         ELSE <<cs[i]>> \o ExpandInitials(cs, i + 1)

NoPeriods(cs) == SelectSeq(cs, LAMBDA c : c # ".")

_normalize_author(name) ==
    Join(StripCs(CollapseSpace(NoPeriods(
        ExpandInitials(ExpandInitials(StripCs(LowerCs(Chars(name))), 1), 1)))))

(***************************************************************************)
(* sanitize.py                                                             *)
(***************************************************************************)

UnsafeChars == {"/", "\\", ":", "\"", "*", "?", "<", ">", "|", ";"}
MaxNameBytes == 255

\* re.sub(r'[/\\:"*?<>|;]+', '_', s): every run of unsafe characters becomes "_"
RECURSIVE ReplaceUnsafe(_)
ReplaceUnsafe(cs) ==
    IF cs = <<>> THEN <<>>
    ELSE IF Head(cs) \in UnsafeChars
         THEN <<"_">> \o ReplaceUnsafe(LStripSet(cs, UnsafeChars))
         ELSE <<Head(cs)>> \o ReplaceUnsafe(Tail(cs))

\* re.sub(r'__+', '_', s)
RECURSIVE CollapseUnderscores(_)
CollapseUnderscores(cs) ==
    IF cs = <<>> THEN <<>>
    ELSE IF Len(cs) >= 2 /\ cs[1] = "_" /\ cs[2] = "_"
         THEN <<"_">> \o CollapseUnderscores(LStripSet(cs, {"_"}))
         ELSE <<Head(cs)>> \o CollapseUnderscores(Tail(cs))

\* the names used here are ASCII and shorter than MaxNameBytes, so the
\* truncation loop of sanitize_filename leaves them as they are
Truncate(cs) == IF Len(cs) > MaxNameBytes THEN SubSeq(cs, 1, MaxNameBytes) ELSE cs

sanitize_filename(filename) ==
    Join(Truncate(CollapseUnderscores(
        RStripSet(LStripSet(ReplaceUnsafe(Chars(filename)), {".", "_"}), {".", "_"}))))

(***************************************************************************)
(* ops/organize.py: parse_path                                             *)
(*                                                                         *)
(* A source path is the sequence of its components below "/", the file     *)
(* name last: <<"in", "Ann Leckie", "book.m4b">> is /in/Ann Leckie/book.m4b.*)
(* The operators of this section work on sequences of characters; the      *)
(* result of parse_path is a record of strings.                            *)
(***************************************************************************)

_LABEL_SUFFIXES == {"audiobook", "audio", "unabridged", "abridged"}

_GENERIC_BASENAMES ==
    {"file", "mp3", "audiobook", "audio", "book", "track", "output",
     "part1", "part2", "part 1", "part 2", "disc1", "disc2"}

\* first index >= i whose character is outside the set (Len+1 when none)
RECURSIVE SkipSet(_, _, _)
SkipSet(cs, i, set) ==
    IF i <= Len(cs) /\ cs[i] \in set THEN SkipSet(cs, i + 1, set) ELSE i

\* s[i:] with the 1-based index of the first character kept
From(cs, i) == SubSeq(cs, i, Len(cs))

\* s.find(w, i): first index >= i where the characters w stand (0 when none)
RECURSIVE FindSub(_, _, _)
FindSub(cs, w, i) ==
    IF i + Len(w) - 1 > Len(cs) THEN 0
    ELSE IF SubSeq(cs, i, i + Len(w) - 1) = w THEN i
    ELSE FindSub(cs, w, i + 1)

\* s.rfind(c): last index holding character c (0 when none)
LastIndexOf(cs, c) ==
    LET hits == {i \in 1..Len(cs) : cs[i] = c}
    IN  IF hits = {} THEN 0 ELSE CHOOSE i \in hits : \A j \in hits : j <= i

\* re.search(r"\d", s)
HasDigit(cs) == \E i \in 1..Len(cs) : IsDigit(cs[i])

\* str.isdigit()
AllDigits(cs) == cs # <<>> /\ \A i \in 1..Len(cs) : IsDigit(cs[i])

\* s.lower().startswith(prefix.lower())
StartsWithCI(cs, prefix) ==
    /\ Len(prefix) <= Len(cs)
    /\ LowerCs(SubSeq(cs, 1, Len(prefix))) = LowerCs(prefix)

\* r"\s+-\s+" standing right before index i: the index where that separator
\* starts, or 0
DashSepBefore(cs, i) ==
    LET t == RStripSet(SubSeq(cs, 1, i - 1), {" "})
        u == SubSeq(t, 1, Len(t) - 1)
        v == RStripSet(u, {" "})
    IN  IF /\ Len(t) < i - 1
           /\ t # <<>> /\ t[Len(t)] = "-"
           /\ Len(v) < Len(u)
        THEN Len(v) + 1 ELSE 0

HashLen == 16

\* re.sub(r"\s+-\s+[a-f0-9]{16}$", "", name)
_strip_hash(cs) ==
    LET h == Len(cs) - HashLen + 1
    IN  IF /\ h >= 1
           /\ \A k \in h..Len(cs) : cs[k] \in Digits \cup {"a", "b", "c", "d", "e", "f"}
           /\ DashSepBefore(cs, h) > 0
        THEN SubSeq(cs, 1, DashSepBefore(cs, h) - 1) ELSE cs

\* re.sub(r"\s+-\s+(?:Audiobook|Audio|Unabridged|Abridged)$", "", name, IGNORECASE)
_strip_label_suffix(cs) ==
    LET labels == {"Audiobook", "Audio", "Unabridged", "Abridged"}
        starts == {DashSepBefore(cs, Len(cs) - Len(w) + 1) :
                      w \in {w \in labels : /\ Len(w) <= Len(cs)
                                            /\ MatchesAtCI(cs, Len(cs) - Len(w) + 1, w)}}
                  \ {0}
    IN  IF starts = {} THEN cs
        ELSE SubSeq(cs, 1, (CHOOSE i \in starts : \A j \in starts : i <= j) - 1)

\* where a match of one of the patterns that re.sub removes ends when it starts
\* at index i, or 0; j is where the whitespace at i ends
MatchEndAt(cs, i, j, kind) ==
    CASE kind = "paren" ->                      \* r"\s*\(.*?\)"
           IF j <= Len(cs) /\ cs[j] = "(" THEN IndexOf(cs, ")", j + 1) ELSE 0
      [] kind = "bracket" ->                    \* r"\s*\[.*?\]"
           IF j <= Len(cs) /\ cs[j] = "[" THEN IndexOf(cs, "]", j + 1) ELSE 0
      [] kind = "numbracket" ->                 \* r"\[\d+\]"
           LET e == SkipSet(cs, i + 1, Digits)
           IN  IF cs[i] = "[" /\ e > i + 1 /\ e <= Len(cs) /\ cs[e] = "]" THEN e ELSE 0
      [] kind = "brace" ->                      \* r"\s*\{[^}]+\}"
           LET c == IndexOf(cs, "}", j + 1)
           IN  IF j <= Len(cs) /\ cs[j] = "{" /\ c > j + 1 THEN c ELSE 0
      [] kind = "bitrate" ->                    \* r"\s*\([^)]*\b\d+k\b[^)]*\)"
           LET c == IndexOf(cs, ")", j + 1)
           IN  IF /\ j <= Len(cs) /\ cs[j] = "(" /\ c > 0
                  /\ \E a \in (j + 1)..(c - 1) :
                        /\ IsDigit(cs[a]) /\ ~IsWord(cs[a - 1])
                        /\ LET b == SkipSet(cs, a, Digits)
                           IN  b < c /\ cs[b] = "k" /\ ~IsWord(cs[b + 1])
               THEN c ELSE 0
      [] kind = "caprate" ->                    \* r"\s*\([A-Z][a-z]+\)\s+\d+k\s+[\d.]+"
           LET e == SkipSet(cs, j + 2, LowerSet)
               n == SkipSpace(cs, e + 1)
               k == SkipSet(cs, n, Digits)
               m == SkipSpace(cs, k + 1)
               z == SkipSet(cs, m, Digits \cup {"."})
           IN  IF /\ j + 1 <= Len(cs) /\ cs[j] = "(" /\ IsUpper(cs[j + 1])
                  /\ e > j + 2 /\ e <= Len(cs) /\ cs[e] = ")"
                  /\ n > e + 1
                  /\ k > n /\ k <= Len(cs) /\ cs[k] = "k"
                  /\ m > k + 1
                  /\ z > m
               THEN z - 1 ELSE 0
      [] kind = "audiobook" ->                  \* r"\s*\((?:The\s+)?Audio\s*Book\)", IGNORECASE
           LET t == SkipSpace(cs, j + 4)
               q == IF MatchesAtCI(cs, j + 1, "The") /\ t > j + 4 THEN t ELSE j + 1
               r == SkipSpace(cs, q + 5)
           IN  IF /\ j <= Len(cs) /\ cs[j] = "("
                  /\ MatchesAtCI(cs, q, "Audio")
                  /\ MatchesAtCI(cs, r, "Book)")
               THEN r + 4 ELSE 0
      [] kind = "unabridged" ->                 \* r"\s*\(Unabridged\)", IGNORECASE
           IF MatchesAtCI(cs, j, "(Unabridged)") THEN j + 11 ELSE 0

\* re.sub(pattern, "", s): the matches are removed left to right, without overlap
RECURSIVE RemoveAll(_, _, _)
RemoveAll(cs, i, kind) ==
    IF i > Len(cs) THEN <<>>
    ELSE IF MatchEndAt(cs, i, SkipSpace(cs, i), kind) > 0
         THEN RemoveAll(cs, MatchEndAt(cs, i, SkipSpace(cs, i), kind) + 1, kind)
         ELSE <<cs[i]>> \o RemoveAll(cs, i + 1, kind)

\* the four fields parse_path fills in, as characters
NoFields == [author |-> <<>>, title |-> <<>>, series |-> <<>>, position |-> <<>>]

\* re.sub(r"-#-(\d+)", r"-#\1", s)
RECURSIVE FixHashDash(_, _)
FixHashDash(cs, i) ==
    IF i > Len(cs) THEN <<>>
    ELSE IF /\ i + 3 <= Len(cs)
            /\ cs[i] = "-" /\ cs[i + 1] = "#" /\ cs[i + 2] = "-" /\ IsDigit(cs[i + 3])
         THEN <<"-", "#">> \o SubSeq(cs, i + 3, SkipSet(cs, i + 3, Digits) - 1)
                  \o FixHashDash(cs, SkipSet(cs, i + 3, Digits))
         ELSE <<cs[i]>> \o FixHashDash(cs, i + 1)

\* r"-#(\d+)" followed by the character c, starting at index i: the index of
\* that character, or 0
MarkerEnd(cs, i, c) ==
    LET e == SkipSet(cs, i + 2, Digits)
    IN  IF /\ i + 2 <= Len(cs) /\ cs[i] = "-" /\ cs[i + 1] = "#"
           /\ e > i + 2 /\ e <= Len(cs) /\ cs[e] = c
        THEN e ELSE 0

\* re.sub(r"-#(\d+) ", r"-#\1-", s)
RECURSIVE FixHashSpace(_, _)
FixHashSpace(cs, i) ==
    IF i > Len(cs) THEN <<>>
    ELSE IF MarkerEnd(cs, i, " ") > 0
         THEN SubSeq(cs, i, MarkerEnd(cs, i, " ") - 1) \o <<"-">>
                  \o FixHashSpace(cs, MarkerEnd(cs, i, " ") + 1)
         ELSE <<cs[i]>> \o FixHashSpace(cs, i + 1)

\* list(re.finditer(r"-#(\d+)-", s))[-1].start(): the matches are found left
\* to right without overlap; `found` is the start of the last one so far (0: none)
RECURSIVE LastMarker(_, _, _)
LastMarker(cs, i, found) ==
    IF i > Len(cs) THEN found
    ELSE IF MarkerEnd(cs, i, "-") > 0 THEN LastMarker(cs, MarkerEnd(cs, i, "-") + 1, i)
    ELSE LastMarker(cs, i + 1, found)

\* re.search(r"-#\d+", s)
HasHashNumber(cs) ==
    \E i \in 1..(Len(cs) - 2) : cs[i] = "-" /\ cs[i + 1] = "#" /\ IsDigit(cs[i + 2])

\* Pattern A, lines 121-139: the marker found last starts at index m
PatternA(normalized, m) ==
    LET prefix == SubSeq(normalized, 1, m - 1)
        \* re.search(r"-(.+?)-#\d+", prefix)
        first_match == \E a \in 1..Len(prefix) :
                           prefix[a] = "-" /\ HasHashNumber(From(prefix, a + 2))
        author_end == IndexOf(prefix, "-", 1)
        series == StripCs(From(prefix, author_end + 1))
        \* re.split(r"-#\d+-", series)[0]
        markers == {i \in 1..Len(series) : MarkerEnd(series, i, "-") > 0}
        split == LastIndexOf(prefix, "-")
    IN  [position |-> SubSeq(normalized, m + 2, MarkerEnd(normalized, m, "-") - 1),
         title |-> StripCs(From(normalized, MarkerEnd(normalized, m, "-") + 1)),
         author |-> IF first_match THEN StripCs(SubSeq(prefix, 1, author_end - 1))
                    ELSE IF split > 0 THEN StripCs(SubSeq(prefix, 1, split - 1))
                    ELSE StripCs(prefix),
         series |-> IF first_match
                    THEN IF markers = {} THEN series
                         ELSE StripCs(SubSeq(series, 1,
                                  (CHOOSE i \in markers : \A j \in markers : i <= j) - 1))
                    ELSE IF split > 0 THEN StripCs(From(prefix, split + 1))
                    ELSE <<>>]

\* the part of patterns B2, B and G after the lazy first group, which ends at
\* index k:  r"\s+(\d{1,3})\s+-\s+(.+)$"  (style "dash"),
\*           r"\s+(\d{1,3})\s+(.+)$"      (style "plain"),
\*           r"\s+\[(\d+)\]\s+(.+)$"      (style "bracket")
NumberedTail(cs, k, style) ==
    LET open == IF style = "bracket" THEN 1 ELSE 0
        a == SkipSpace(cs, k + 1)
        d == a + open
        e == SkipSet(cs, d, Digits)
        f == e + open
        g == SkipSpace(cs, f)
        h == IF style = "dash" THEN g + 1 ELSE f
        r == SkipSpace(cs, h)
    IN  [ok |-> /\ a > k + 1
                /\ e > d
                /\ style = "bracket" => (a <= Len(cs) /\ cs[a] = "[" /\ e <= Len(cs) /\ cs[e] = "]")
                /\ style # "bracket" => e - d <= 3
                /\ g > f
                /\ style = "dash" => (g <= Len(cs) /\ cs[g] = "-")
                \* (.+) takes at least one character, a whitespace if nothing else is left
                /\ r > h
                /\ r <= Len(cs) \/ r - h >= 2,
         head |-> SubSeq(cs, 1, k),
         pos |-> SubSeq(cs, d, e - 1),
         rest |-> IF r <= Len(cs) THEN From(cs, r) ELSE <<" ">>]

\* re.match of one of the three patterns: the lazy first group is the shortest
\* one after which the rest of the pattern matches
NumberedMatch(cs, style) ==
    LET ks == {k \in 1..Len(cs) : NumberedTail(cs, k, style).ok}
    IN  IF ks = {} THEN [ok |-> FALSE, head |-> <<>>, pos |-> <<>>, rest |-> <<>>]
        ELSE NumberedTail(cs, CHOOSE k \in ks : \A j \in ks : k <= j, style)

\* Patterns B2, B and G: "Name N - Title", "Name NN Title", "Name [NN] Title".
\* Each applies while the title is empty (it is, when B2 is tried); B asks for a
\* title of min_title characters
PatternNumbered(s, match, min_title) ==
    IF s.title = <<>> /\ match.ok /\ Len(StripCs(match.rest)) >= min_title
    THEN [s EXCEPT !.series = StripCs(match.head),
                   !.position = StripCs(match.pos),
                   !.title = StripCs(match.rest)]
    ELSE s

\* Pattern E: an "Author - Series" grandparent
PatternE(s, gp_name) ==
    LET i == FindSub(gp_name, Chars(" - "), 1)
        gp_author == StripCs(SubSeq(gp_name, 1, i - 1))
        gp_series == StripCs(From(gp_name, i + 3))
    IN  IF /\ i > 0
           /\ Join(LowerCs(gp_series)) \notin _LABEL_SUFFIXES
           /\ ~HasDigit(gp_author)
        THEN [s EXCEPT !.author = IF @ = <<>> THEN gp_author ELSE @,
                       !.series = IF @ = <<>> THEN gp_series ELSE @]
        ELSE s

_extract_author(name) ==
    LET cleaned == StripCs(RemoveAll(StripCs(RemoveAll(name, 1, "paren")), 1, "bracket"))
        i == FindSub(cleaned, Chars(" - "), 1)
        candidate == StripCs(SubSeq(cleaned, 1, i - 1))
    IN  IF i > 0 /\ ~HasDigit(candidate) THEN candidate
        ELSE IF cleaned # <<>> THEN cleaned ELSE name

collection_words ==
    {"trilogy", "series", "saga", "collection", "volumes", "books", "chronicle",
     "chronicles", "standalones", "chaptered", "audiobook", "all chaptered", "stuff",
     "random", "newbooks", "output", "input", "incoming", "processing", "completed",
     "failed", "queue", "pipeline"}

MaxAuthorLen == 50
MaxAuthorWords == 5

_looks_like_author(name) ==
    /\ \A word \in collection_words : FindSub(LowerCs(name), Chars(word), 1) = 0
    /\ ~HasDigit(name)
    /\ Len(name) <= MaxAuthorLen
    /\ Len(SplitWords(name)) <= MaxAuthorWords
    /\ \A article \in {"the ", "a ", "an "} : ~StartsWithCI(name, Chars(article))
    /\ Len(SplitWords(name)) # 1

_clean_collection_suffix(name) ==
    StripCs(RemoveAll(RemoveAll(name, 1, "bracket"), 1, "paren"))

\* Pattern C: the grandparent, or the great-grandparent, as the author
PatternC(s, cx) ==
    IF cx.parent_name = cx.basename /\ cx.gp_name # <<>>
    THEN IF s.author = <<>> /\ _looks_like_author(_extract_author(cx.gp_name))
         THEN [s EXCEPT !.author = _extract_author(cx.gp_name)]
         ELSE s
    ELSE IF cx.gp_name # <<>> /\ s.author = <<>>
    THEN IF _looks_like_author(cx.gp_name)
         THEN [s EXCEPT !.author = _extract_author(cx.gp_name)]
         ELSE IF cx.ggp_name # <<>> /\ _looks_like_author(cx.ggp_name)
         THEN [s EXCEPT !.author = _extract_author(cx.ggp_name),
                        !.series = IF @ = <<>> THEN _clean_collection_suffix(cx.gp_name)
                                   ELSE @]
         ELSE s
    ELSE s

MinTitleLen == 3

\* the Author-Title split of the parent name at its first dash
DashSplit(s, parent_name) ==
    LET i == IndexOf(parent_name, "-", 1)
        candidate_author == StripCs(SubSeq(parent_name, 1, i - 1))
        candidate_title == StripCs(From(parent_name, i + 1))
    IN  IF /\ s.author = <<>> /\ s.series = <<>> /\ s.title = <<>>
           /\ i > 0
           /\ ~HasHashNumber(parent_name)
           /\ _looks_like_author(candidate_author)
           /\ Len(candidate_title) >= MinTitleLen
        THEN [s EXCEPT !.author = candidate_author, !.title = candidate_title]
        ELSE s

\* Dedup: an author equal to the series is cleared
Dedup(s) ==
    IF s.author # <<>> /\ s.series # <<>> /\ LowerCs(s.author) = LowerCs(s.series)
    THEN [s EXCEPT !.author = <<>>]
    ELSE s

\* re.sub(r"^\d+\s*[-\u2013]?\s*", "", s), on ASCII names
StripLeadingNumber(cs) ==
    LET a == SkipSet(cs, 1, Digits)
        b == SkipSpace(cs, a)
        c == IF b <= Len(cs) /\ cs[b] = "-" THEN b + 1 ELSE b
    IN  IF a > 1 THEN From(cs, SkipSpace(cs, c)) ELSE cs

\* Pattern D: the title from the basename
PatternD(s, basename) ==
    LET \* title[len(prefix):].lstrip(" -").strip() when the title starts with the prefix
        DropLeading(title, prefix) ==
            IF prefix # <<>> /\ StartsWithCI(title, prefix)
            THEN StripCs(LStripSet(From(title, Len(prefix) + 1), {" ", "-"}))
            ELSE title
        \* re.match(r"^\[(.+)\]$", title.strip()), the group when it matches
        Unbracket(title) ==
            IF /\ Len(StripCs(title)) >= 3
               /\ Head(StripCs(title)) = "[" /\ StripCs(title)[Len(StripCs(title))] = "]"
            THEN SubSeq(StripCs(title), 2, Len(StripCs(title)) - 1) ELSE title
    IN  IF s.title = <<>>
        THEN [s EXCEPT !.title = StripCs(CollapseSpace(StripLeadingNumber(Unbracket(
                 RemoveAll(DropLeading(DropLeading(basename, s.author), s.series),
                           1, "numbracket")))))]
        ELSE s

\* re.sub(r"(\w)-\s", r"\1 ", s)
RECURSIVE FixWordDash(_, _)
FixWordDash(cs, i) ==
    IF i > Len(cs) THEN <<>>
    ELSE IF i + 2 <= Len(cs) /\ IsWord(cs[i]) /\ cs[i + 1] = "-" /\ IsSpace(cs[i + 2])
         THEN <<cs[i], " ">> \o FixWordDash(cs, i + 3)
         ELSE <<cs[i]>> \o FixWordDash(cs, i + 1)

\* lines 248-256: metadata junk is cleaned from the title
CleanJunk(s) ==
    LET \* re.sub(r"-$", "", s)
        StripEndDash(cs) ==
            IF cs # <<>> /\ cs[Len(cs)] = "-" THEN SubSeq(cs, 1, Len(cs) - 1) ELSE cs
    IN  [s EXCEPT !.title = StripCs(StripEndDash(FixWordDash(
            RemoveAll(RemoveAll(RemoveAll(RemoveAll(RemoveAll(@,
                1, "brace"), 1, "bitrate"), 1, "caprate"), 1, "audiobook"),
                1, "unabridged"),
            1)))]

\* re.search(r"\s*-?\s*\(([^)]+?)(?:\s*[-,]\s*(?:Book|Day|#)\s*([\d.]+))?\)", title)
ParenMatch(title) ==
    LET opens == {j \in 1..Len(title) :
                     title[j] = "(" /\ IndexOf(title, ")", j + 1) > j + 1}
        open == CHOOSE j \in opens : \A h \in opens : j <= h
        \* the parenthesised text
        x == SubSeq(title, open + 1, IndexOf(title, ")", open + 1) - 1)
        \* the optional group at its end: number, keyword, separator
        r == Len(RStripSet(x, Digits \cup {"."}))
        k == Len(RStripSet(SubSeq(x, 1, r), {" "}))
        w == IF k >= 4 /\ SubSeq(x, k - 3, k) = Chars("Book") THEN 4
             ELSE IF k >= 3 /\ SubSeq(x, k - 2, k) = Chars("Day") THEN 3
             ELSE IF k >= 1 /\ x[k] = "#" THEN 1
             ELSE 0
        d == Len(RStripSet(SubSeq(x, 1, k - w), {" "}))
        e == Len(RStripSet(SubSeq(x, 1, d - 1), {" "}))
        grouped == r < Len(x) /\ w > 0 /\ d >= 2 /\ x[d] \in {"-", ","}
        \* where r"\s*-?\s*\(" starts
        a == Len(RStripSet(SubSeq(title, 1, open - 1), {" "}))
        b == IF a >= 1 /\ title[a] = "-" THEN a - 1 ELSE a
    IN  IF opens = {} THEN [ok |-> FALSE, start |-> 0, series |-> <<>>, number |-> <<>>]
        ELSE [ok |-> TRUE,
              start |-> Len(RStripSet(SubSeq(title, 1, b), {" "})) + 1,
              \* the lazy first group is as short as the optional group allows
              series |-> IF grouped THEN SubSeq(x, 1, IF e >= 1 THEN e ELSE 1) ELSE x,
              number |-> IF grouped THEN From(x, r + 1) ELSE <<>>]

YearLen == 4

\* lines 260-282: the series, or the edition year, held in parentheses
ParenSeries(s) ==
    LET match == ParenMatch(s.title)
        candidate_series == RStripSet(StripCs(match.series), {" ", "-", ","})
        before == RStripSet(StripCs(SubSeq(s.title, 1, match.start - 1)), {" ", "-"})
    IN  IF s.series # <<>> \/ ~match.ok THEN s
        ELSE IF AllDigits(candidate_series) /\ Len(candidate_series) = YearLen
        THEN [s EXCEPT !.position = IF @ = <<>> THEN candidate_series ELSE @,
                       !.title = before]
        ELSE IF /\ Len(candidate_series) >= MinTitleLen
                /\ Join(LowerCs(candidate_series)) \notin _LABEL_SUFFIXES
        THEN [s EXCEPT !.series = candidate_series,
                       !.position = IF match.number # <<>> /\ @ = <<>> THEN match.number
                                    ELSE @,
                       !.title = before]
        ELSE s

_clean_title_fallback(basename) ==
    LET title == StripCs(CollapseSpace(StripLeadingNumber(RemoveAll(basename, 1, "numbracket"))))
    IN  IF title # <<>> THEN title ELSE basename

\* lines 284-285
TitleFallback(s, basename) ==
    IF s.title = <<>> THEN [s EXCEPT !.title = _clean_title_fallback(basename)] ELSE s

\* a source directory is the sorted sequence of the stems of its audio files
_title_from_audio_file(directory) ==
    LET stem == _strip_hash(Chars(directory[1]))
        \* re.sub(r"^\d{4}\s*-\s*", "", stem).strip()
        b == SkipSpace(stem, YearLen + 1)
        cleaned == IF /\ Len(stem) >= YearLen /\ AllDigits(SubSeq(stem, 1, YearLen))
                      /\ b <= Len(stem) /\ stem[b] = "-"
                   THEN StripCs(From(stem, SkipSpace(stem, b + 1))) ELSE StripCs(stem)
    IN  IF directory = <<>> THEN <<>>
        ELSE IF Join(LowerCs(cleaned)) \in _GENERIC_BASENAMES \/ AllDigits(cleaned) THEN <<>>
        ELSE cleaned

\* no source_dir argument
None == [given |-> FALSE, audio |-> <<>>]

\* lines 291-302: the author-only fallback
AuthorOnly(s, parent_name, source_dir) ==
    LET _is_author_title == s.author # <<>> /\ StripCs(s.title) = StripCs(s.author)
        _is_dirname_title == /\ StripCs(s.title) = StripCs(parent_name)
                             /\ _looks_like_author(s.title)
        audio_title == _title_from_audio_file(source_dir.audio)
    IN  IF /\ source_dir.given /\ s.title # <<>>
           /\ _is_author_title \/ _is_dirname_title
           /\ audio_title # <<>>
        THEN [s EXCEPT !.author = IF @ = <<>> /\ _is_dirname_title THEN s.title ELSE @,
                       !.title = audio_title]
        ELSE s

_build_result(s) ==
    LET pos == StripCs(s.position)
    IN  [author |-> Join(StripCs(s.author)),
         title |-> Join(LStripSet(StripCs(s.title), {"-", " "})),
         series |-> Join(RStripSet(StripCs(s.series), {"-", " "})),
         \* str(int(pos)) when pos.isdigit()
         position |-> Join(IF ~AllDigits(pos) THEN pos
                           ELSE IF LStripSet(pos, {"0"}) = <<>> THEN <<"0">>
                           ELSE LStripSet(pos, {"0"}))]

\* _strip_hash of the name of the directory `up` levels above the file, "" at "/"
Component(source_path, up) ==
    IF Len(source_path) - up >= 1
    THEN _strip_hash(Chars(source_path[Len(source_path) - up]))
    ELSE <<>>

\* Pattern F: a generic basename gives way to the parent or grandparent name
PatternF(basename, parent_raw, gp_raw) ==
    LET IsGeneric(name) == Join(LowerCs(name)) \in _GENERIC_BASENAMES
    IN  IF ~IsGeneric(basename) THEN basename
        ELSE IF parent_raw # <<>> /\ ~IsGeneric(parent_raw) THEN _strip_label_suffix(parent_raw)
        ELSE IF gp_raw # <<>> THEN _strip_label_suffix(gp_raw)
        ELSE basename

\* lines 69-104: the names parse_path works from
PathContext(source_path) ==
    LET name == Chars(source_path[Len(source_path)])
        \* Path(name).stem
        dot == LastIndexOf(name, ".")
        stem == IF dot > 1 /\ dot < Len(name) THEN SubSeq(name, 1, dot - 1) ELSE name
    IN  [basename |-> PatternF(_strip_hash(stem),
                               Component(source_path, 1), Component(source_path, 2)),
         parent_name |-> Component(source_path, 1),
         gp_name |-> Component(source_path, 2),
         ggp_name |-> Component(source_path, 3)]

\* lines 146-302: the patterns tried when Pattern A does not match
Patterns(cx, target, source_dir) ==
    AuthorOnly(TitleFallback(ParenSeries(CleanJunk(PatternD(Dedup(DashSplit(PatternC(
        PatternE(PatternNumbered(PatternNumbered(PatternNumbered(NoFields,
            NumberedMatch(target, "dash"), 0),
            NumberedMatch(target, "plain"), MinTitleLen),
            NumberedMatch(target, "bracket"), 0),
            cx.gp_name), cx), cx.parent_name)), cx.basename))), cx.basename),
        cx.parent_name, source_dir)

\* lines 112-144 and 304: Pattern A on the normalised parse target, else the rest
ParseFrom(cx, target, source_dir) ==
    IF LastMarker(target, 1, 0) > 0
    THEN _build_result(PatternA(target, LastMarker(target, 1, 0)))
    ELSE _build_result(Patterns(cx, target, source_dir))

parse_path(source_path, source_dir) ==
    ParseFrom(PathContext(source_path),
              FixHashSpace(FixHashDash(
                  IF PathContext(source_path).parent_name # <<>>
                  THEN PathContext(source_path).parent_name
                  ELSE PathContext(source_path).basename, 1), 1),
              source_dir)

(***************************************************************************)
(* Tabulation.  The text functions above are evaluated once for every name *)
(* of NameUniverse; a name outside it is computed directly, so the tables  *)
(* change no result.                                                       *)
(***************************************************************************)

NameUniverse ==
    {"", "R. A. Salvatore", "R.A. Salvatore", "Bob Salvatore", "J Tolkien", "C Tolkien",
     "X Tolkien", "X Tolkien (Author)", "J Tolkien, Ed - editor", "A-M Leckie",
     "AM Leckie", "Ann Leckie", "JRR Tolkien", "New Author", "_unsorted",
     "Provenance", "Provenance (2017)", "The Raven Tower", "Raven Tower",
     "Raven Tower Saga", "Imperial Radch", "Ancillary Justice", "provenance",
     "Book 1 - Ancillary Justice", "Unknown", "2019", "Various"}

NormalizeTable == [n \in NameUniverse |-> _normalize_for_compare(n)]
CleanTable == [n \in NameUniverse |-> _clean_author_name(n)]
SurnameTable == [n \in NameUniverse |-> _extract_surname(n)]
AuthorNormTable == [n \in NameUniverse |-> _normalize_author(n)]
SanitizeTable == [n \in NameUniverse |-> sanitize_filename(n)]
LowerTable == [n \in NameUniverse |-> Lower(n)]

Normalized(n) == IF n \in NameUniverse THEN NormalizeTable[n] ELSE _normalize_for_compare(n)
Cleaned(n) == IF n \in NameUniverse THEN CleanTable[n] ELSE _clean_author_name(n)
Surname(n) == IF n \in NameUniverse THEN SurnameTable[n] ELSE _extract_surname(n)
AuthorNorm(n) == IF n \in NameUniverse THEN AuthorNormTable[n] ELSE _normalize_author(n)
Sanitized(n) == IF n \in NameUniverse THEN SanitizeTable[n] ELSE sanitize_filename(n)
Lowered(n) == IF n \in NameUniverse THEN LowerTable[n] ELSE Lower(n)

NormUniverse == {NormalizeTable[n] : n \in NameUniverse}
NearTable == [pair \in NormUniverse \X NormUniverse |-> _is_near_match(pair[1], pair[2])]
NearMatch(a, b) ==
    IF a \in NormUniverse /\ b \in NormUniverse THEN NearTable[<<a, b>>]
    ELSE _is_near_match(a, b)

(***************************************************************************)
(* State                                                                   *)
(*                                                                         *)
(* A path is the sequence of folder names under the library root, so the   *)
(* library root itself is <<>>.  A Python dict is a sequence of            *)
(* <<key, value>> pairs in insertion order.                                *)
(***************************************************************************)
VARIABLES
    folders,             \* LibraryIndex._folders: parent path -> dict norm -> actual
    files,               \* LibraryIndex._files: set of <<dir path, filename>>
    processed,           \* LibraryIndex._processed: set of source stems
    authors_by_surname,  \* LibraryIndex._authors_by_surname: surname -> list of names
    author_aliases,      \* LibraryIndex._author_aliases: variant -> canonical
    alias_file,          \* .author_aliases.json on disk
    alias_writable,      \* whether writing the alias file succeeds (no OSError)
    config,              \* the flags of the run: dry_run, reorganize, ai_all
    disk_dirs,           \* directories of the library on disk: set of <<parent, name>>
    disk_files,          \* files of the library on disk: set of <<dir path, filename>>
    stage_status,        \* manifest: book hash -> status of its organize stage
    registered,          \* every <<parent, name>> passed to register_new_folder so far
    marked,              \* every key passed to mark_processed so far
    saved_aliases,       \* variant -> canonical of every _save_alias call so far
    calls,               \* number of operations performed so far
    last                 \* the last operation: its name, arguments and result

vars == <<folders, files, processed, authors_by_surname, author_aliases, alias_file,
          alias_writable, config, disk_dirs, disk_files, stage_status, registered, marked,
          saved_aliases, calls, last>>

(***************************************************************************)
(* Python dict and list helpers                                            *)
(***************************************************************************)

DictHas(d, key) == \E i \in DOMAIN d : d[i][1] = key

\* dict.get(key) of a dict of strings, "" standing for None
DictGet(d, key) ==
    IF DictHas(d, key) THEN d[CHOOSE i \in DOMAIN d : d[i][1] = key][2] ELSE ""

\* d[key] = value: an existing key keeps its place, a new one goes last
DictSet(d, key, value) ==
    IF DictHas(d, key)
    THEN [i \in DOMAIN d |-> IF d[i][1] = key THEN <<key, value>> ELSE d[i]]
    ELSE Append(d, <<key, value>>)

\* list(d.values())
DictValues(d) == [i \in DOMAIN d |-> d[i][2]]

InSeq(x, seq) == \E i \in DOMAIN seq : seq[i] = x

\* a function with one more (or one replaced) entry
MapSet(f, key, value) ==
    [k \in DOMAIN f \cup {key} |-> IF k = key THEN value ELSE f[k]]

\* dict.get(key, []) of a dict of lists
ListGet(f, key) == IF key \in DOMAIN f THEN f[key] ELSE <<>>

\* the empty dict
EmptyMap == [k \in {} |-> ""]

\* the first element of seq that satisfies Test, "" when none does
FirstSuch(seq, Test(_)) ==
    LET hits == {i \in DOMAIN seq : Test(seq[i])}
    IN  IF hits = {} THEN "" ELSE seq[CHOOSE i \in hits : \A j \in hits : i <= j]

(***************************************************************************)
(* library_index.py: LibraryIndex                                          *)
(***************************************************************************)

\* the dict built from one directory listing by the loop of _scan
RECURSIVE ScanListing(_, _)
ScanListing(dirnames, normalized) ==
    IF dirnames = <<>> THEN normalized
    ELSE ScanListing(Tail(dirnames),
                     DictSet(normalized, Normalized(Head(dirnames)), Head(dirnames)))

\* self._authors_by_surname.setdefault(surname, []).append(name)
AppendAuthor(by_surname, surname, name) ==
    IF surname = "" THEN by_surname
    ELSE MapSet(by_surname, surname, Append(ListGet(by_surname, surname), name))

\* the surname index built from the top-level folders by _scan
RECURSIVE IndexSurnames(_, _)
IndexSurnames(names, by_surname) ==
    IF names = <<>> THEN by_surname
    ELSE IndexSurnames(Tail(names),
                       AppendAuthor(by_surname, Surname(Head(names)), Head(names)))

\* _scan: listing maps every directory that has subdirectories to their names, in
\* the order os.walk yields them
ScanFolders(listing) == [p \in DOMAIN listing |-> ScanListing(listing[p], <<>>)]

ScanAuthors(fmap) ==
    IF <<>> \in DOMAIN fmap THEN IndexSurnames(DictValues(fmap[<<>>]), EmptyMap)
    ELSE EmptyMap

\* _load_aliases: the file holds {canonical: [alias, ...]}; the files used here
\* name every alias under one canonical name
LoadAliases(file) ==
    IF file.state # "ok" THEN EmptyMap
    ELSE [a \in UNION {file.map[c] : c \in DOMAIN file.map} |->
            CHOOSE c \in DOMAIN file.map : a \in file.map[c]]

\* a reuse_existing without the token-based scan
ReuseNear_none(desired, near) == desired

\* the token-based scan of reuse_existing: near holds the entries whose key is a
\* near-match, in dict order
ReuseNear(desired, near) == IF near = <<>> THEN desired ELSE near[1][2]

\* reuse_existing once the parent is known to the index
ReuseInMap(folder_map, desired, desired_norm) ==
    IF InSeq(desired, DictValues(folder_map)) THEN desired
    ELSE IF DictHas(folder_map, desired_norm) THEN DictGet(folder_map, desired_norm)
    ELSE ReuseNear(desired,
                   SelectSeq(folder_map, LAMBDA kv : NearMatch(desired_norm, kv[1])))

reuse_existing(fmap, parent, desired) ==
    IF parent \notin DOMAIN fmap THEN desired
    ELSE ReuseInMap(fmap[parent], desired, Normalized(desired))

\* file_exists
file_exists(fset, dest_dir, filename) == <<dest_dir, filename>> \in fset

\* a register_new_folder that re-inserts the entry at the end of the dict
register_new_folder_reinsert(fmap, parent, folder_name) ==
    MapSet(fmap, parent,
           Append(SelectSeq(ListGet(fmap, parent),
                            LAMBDA kv : kv[1] # Normalized(folder_name)),
                  <<Normalized(folder_name), folder_name>>))

\* register_new_folder: the new value of _folders
register_new_folder(fmap, parent, folder_name) ==
    MapSet(fmap, parent,
           DictSet(ListGet(fmap, parent), Normalized(folder_name), folder_name))

\* register_new_file: the new value of _files
register_new_file(fset, dest_dir, filename) == fset \cup {<<dest_dir, filename>>}

\* register_author: the new value of _authors_by_surname
register_author(by_surname, author_name) ==
    IF InSeq(author_name, ListGet(by_surname, Surname(author_name))) THEN by_surname
    ELSE AppendAuthor(by_surname, Surname(author_name), author_name)

\* a mark_processed that never reports a stem as seen
mark_processed_ret_never(seen, source_stem) == FALSE

\* mark_processed: the value returned
mark_processed_ret(seen, source_stem) == source_stem \in seen

\* a mark_processed that does not remember the stem
mark_processed_forgetful(seen, source_stem) == seen

\* mark_processed: the new value of _processed
mark_processed(seen, source_stem) == seen \cup {source_stem}

\* _author_aliases.get(name), "" standing for None
AliasGet(aliases, name) == IF name \in DOMAIN aliases THEN aliases[name] ELSE ""

\* a _save_alias that forgets to store the alias in memory
save_alias_map_dropped(aliases, variant, canonical) == aliases

\* _save_alias: the new value of _author_aliases
save_alias_map(aliases, variant, canonical) ==
    IF variant = canonical THEN aliases ELSE MapSet(aliases, variant, canonical)

\* _save_alias: the canonical -> aliases map it rebuilds for the file
CanonicalMap(aliases) ==
    [c \in {aliases[a] : a \in DOMAIN aliases} |-> {a \in DOMAIN aliases : aliases[a] = c}]

\* _save_alias: the new content of the alias file; write_ok is whether write_text
\* succeeds (an OSError is caught and only logged)
save_alias_file(file, aliases, variant, canonical, write_ok) ==
    IF variant = canonical \/ ~write_ok THEN file
    ELSE [state |-> "ok", map |-> CanonicalMap(MapSet(aliases, variant, canonical))]

\* a match_author that adopts the first same-surname folder however many there are
MatchCandidates_guess(desired, cleaned, candidates, by_initials, by_std) ==
    IF candidates = <<>> THEN [ret |-> desired, save |-> FALSE]
    ELSE IF InSeq(desired, candidates) THEN [ret |-> desired, save |-> FALSE]
    ELSE IF InSeq(cleaned, candidates) THEN [ret |-> cleaned, save |-> TRUE]
    ELSE IF by_initials # "" THEN [ret |-> by_initials, save |-> TRUE]
    ELSE IF by_std # "" THEN [ret |-> by_std, save |-> TRUE]
    ELSE [ret |-> candidates[1], save |-> TRUE]

\* match_author from step 4 on: the surname candidates are known
MatchCandidates(desired, cleaned, candidates, by_initials, by_std) ==
    IF candidates = <<>> THEN [ret |-> desired, save |-> FALSE]
    ELSE IF InSeq(desired, candidates) THEN [ret |-> desired, save |-> FALSE]
    ELSE IF InSeq(cleaned, candidates) THEN [ret |-> cleaned, save |-> TRUE]
    ELSE IF by_initials # "" THEN [ret |-> by_initials, save |-> TRUE]
    ELSE IF by_std # "" THEN [ret |-> by_std, save |-> TRUE]
    ELSE IF Len(candidates) = 1 THEN [ret |-> candidates[1], save |-> TRUE]
    ELSE [ret |-> desired, save |-> FALSE]

\* match_author from step 4 on: the surname is known
MatchSurname(desired, cleaned, surname, candidates) ==
    IF surname = "" THEN [ret |-> desired, save |-> FALSE]
    ELSE MatchCandidates(desired, cleaned, candidates,
             FirstSuch(candidates, LAMBDA e : AuthorNorm(e) = AuthorNorm(cleaned)),
             FirstSuch(candidates, LAMBDA e : Normalized(e) = Normalized(cleaned)))

\* a match_author that looks at the library folders before the alias table
MatchCleaned_folders_first(aliases, by_surname, desired, cleaned) ==
    IF desired = "" THEN [ret |-> desired, save |-> FALSE]
    ELSE IF ListGet(by_surname, Surname(cleaned)) # <<>>
         THEN MatchSurname(desired, cleaned, Surname(cleaned),
                           ListGet(by_surname, Surname(cleaned)))
    ELSE IF AliasGet(aliases, desired) # ""
         THEN [ret |-> AliasGet(aliases, desired), save |-> FALSE]
    ELSE [ret |-> desired, save |-> FALSE]

\* match_author once the name is cleaned
MatchCleaned(aliases, by_surname, desired, cleaned) ==
    IF desired = "" THEN [ret |-> desired, save |-> FALSE]
    ELSE IF AliasGet(aliases, desired) # ""
         THEN [ret |-> AliasGet(aliases, desired), save |-> FALSE]
    ELSE IF cleaned # desired /\ AliasGet(aliases, cleaned) # ""
         THEN [ret |-> AliasGet(aliases, cleaned), save |-> TRUE]
    ELSE MatchSurname(desired, cleaned, Surname(cleaned),
                      ListGet(by_surname, Surname(cleaned)))

\* match_author: ret is the name returned, save whether _save_alias(desired, ret)
\* was called on the way
match_author(aliases, by_surname, desired) ==
    MatchCleaned(aliases, by_surname, desired, Cleaned(desired))

(***************************************************************************)
(* ops/organize.py: build_plex_path with an index                          *)
(*                                                                         *)
(* The destination is built as a sequence of levels <<folder name, kind>>, *)
(* kind telling how the name was chosen: "author" (match_author),          *)
(* "unsorted", "series" and "title" (reuse_existing), "prefixed" (a        *)
(* "Book N - " title, used as built) and "year" (an edition subfolder).    *)
(***************************************************************************)

\* sanitize_filename(value) if value else default
SanitizedOr(value, default) == IF value # "" THEN Sanitized(value) ELSE default

\* re.fullmatch(r"\d{4}", position)
IsYear(position) ==
    Len(position) = 4 /\ \A i \in 1..4 : IsDigit(SubSeq(position, i, i))

\* path / name; joining an empty name leaves the path as it is
Level(levels, name, kind) == IF name = "" THEN levels ELSE Append(levels, <<name, kind>>)
LevelPath(levels) == [i \in DOMAIN levels |-> levels[i][1]]
LevelKinds(levels) == [i \in DOMAIN levels |-> levels[i][2]]

TitleFolder(title, position, has_book_prefix) ==
    IF has_book_prefix THEN "Book " \o position \o " - " \o title ELSE title

\* the title level under a series folder
BuildTitle(fmap, levels, title_folder, has_book_prefix) ==
    IF has_book_prefix THEN Level(levels, title_folder, "prefixed")
    ELSE Level(levels, reuse_existing(fmap, LevelPath(levels), title_folder), "title")

\* the series and title levels under base
BuildLevels(fmap, base, title, series_name, position, has_book_prefix) ==
    IF series_name # ""
    THEN BuildTitle(fmap,
                    Level(base, reuse_existing(fmap, LevelPath(base), series_name),
                          "series"),
                    TitleFolder(title, position, has_book_prefix), has_book_prefix)
    ELSE Level(base, reuse_existing(fmap, LevelPath(base), title), "title")

\* the year edition subfolder
BuildYear(levels, position, is_year_edition) ==
    IF is_year_edition THEN Level(levels, position, "year") ELSE levels

\* the top level left out when there is no author: Series/Title/
BaseLevel_series_on_top(author) ==
    IF author # "" THEN <<(<<author, "author">>)>> ELSE <<>>

\* the top level: the author, or _unsorted when there is none
BaseLevel(author) ==
    IF author # "" THEN <<(<<author, "author">>)>> ELSE <<(<<"_unsorted", "unsorted">>)>>

\* build_plex_path once author and series are settled
BuildSettled(fmap, author, title, series_name, position) ==
    BuildYear(BuildLevels(fmap, BaseLevel(author), title, series_name, position,
                          series_name # "" /\ position # "" /\ ~IsYear(position)),
              position,
              position # "" /\ IsYear(position) /\ series_name = "")

\* build_plex_path once the author is canonicalised (m is what match_author gave)
BuildMatched(fmap, desired, m, title, series_name, position) ==
    [desired |-> desired, author |-> m.ret, save |-> m.save,
     levels |-> BuildSettled(fmap, m.ret, title,
                    IF series_name # "" /\ Lowered(series_name) = Lowered(title)
                    THEN "" ELSE series_name,
                    position)]

\* build_plex_path once the names are sanitised
BuildSanitized(fmap, aliases, by_surname, author, title, series_name, position) ==
    BuildMatched(fmap, author,
                 IF author # "" THEN match_author(aliases, by_surname, author)
                 ELSE [ret |-> "", save |-> FALSE],
                 title, series_name, position)

\* build_plex_path(root, metadata, index): the levels of the path returned, the
\* author used, and whether match_author saved an alias for it
build_plex_path(fmap, aliases, by_surname, metadata) ==
    BuildSanitized(fmap, aliases, by_surname,
                   SanitizedOr(metadata.author, ""),
                   SanitizedOr(metadata.title, "Unknown"),
                   SanitizedOr(metadata.series, ""),
                   metadata.position)

\* _path_components: the (parent, child) pairs between the root and the path
_path_components(path) == [i \in DOMAIN path |-> <<SubSeq(path, 1, i - 1), path[i]>>]

\* the loop of build_plex_path that registers the path components
RECURSIVE RegisterAll(_, _)
RegisterAll(fmap, pairs) ==
    IF pairs = <<>> THEN fmap
    ELSE RegisterAll(register_new_folder(fmap, Head(pairs)[1], Head(pairs)[2]),
                     Tail(pairs))

(***************************************************************************)
(* Libraries on disk when the index is built                               *)
(***************************************************************************)

\* bound on the number of operations of one behaviour
MaxCalls == 3

NoListing == [p \in {} |-> <<>>]

\* a library with three author surnames: one folder (salvatore), two folders
\* (tolkien), and two folders (leckie) one of which is spelt with a hyphen
AuthorLibrary ==
    [listing |-> (<<>> :> <<"R. A. Salvatore", "J Tolkien", "C Tolkien",
                            "A-M Leckie", "Ann Leckie", "_unsorted">>),
     files |-> {}]

\* a library with one author and two books, whose folder names differ after
\* normalisation
PlainLibrary ==
    [listing |-> (<<>> :> <<"Ann Leckie">>) @@
                 (<<"Ann Leckie">> :> <<"Provenance", "The Raven Tower">>),
     files |-> {<<(<<"Ann Leckie", "Provenance">>), "book.m4b">>}]

\* a library that holds two editions of one book side by side; os.walk lists
\* them in either order
EditionLibrary(first, second) ==
    [listing |-> (<<>> :> <<"Ann Leckie">>) @@
                 (<<"Ann Leckie">> :> <<first, second, "The Raven Tower">>),
     files |-> {}]

\* a library with authors, a series and books
BuildLibrary ==
    [listing |-> (<<>> :> <<"R. A. Salvatore", "J Tolkien", "C Tolkien", "Ann Leckie",
                            "_unsorted">>) @@
                 (<<"Ann Leckie">> :> <<"The Raven Tower", "Raven Tower Saga",
                                        "Imperial Radch", "Provenance">>) @@
                 (<<"Ann Leckie", "Imperial Radch">> :> <<"Ancillary Justice">>),
     files |-> {<<(<<"Ann Leckie", "Provenance">>), "book.m4b">>}]

\* a library root that does not exist yet
EmptyLibrary == [listing |-> NoListing, files |-> {}]

NoAliasFile == [state |-> "absent", map |-> [c \in {} |-> {}]]
CorruptAliasFile == [state |-> "corrupt", map |-> [c \in {} |-> {}]]
SomeAliasFile == [state |-> "ok", map |-> ("J Tolkien" :> {"JRR Tolkien"})]

\* every <<parent, name>> of a listing
ListedDirs(listing) ==
    UNION {{<<p, listing[p][i]>> : i \in DOMAIN listing[p]} : p \in DOMAIN listing}

\* the metadata dict of a book
NoMetadata == [author |-> "", title |-> "", series |-> "", position |-> ""]

NoCall == [op |-> "none", arg |-> "", arg2 |-> "", parent |-> <<>>, ret |-> "",
           path |-> <<>>, kinds |-> <<>>, metadata |-> NoMetadata, flag |-> FALSE,
           io |-> ""]

\* the flags of a run that is neither a dry run nor a reorganize run
NoConfig == [dry_run |-> FALSE, reorganize |-> FALSE, ai_all |-> FALSE, base_url |-> FALSE]

\* LibraryIndex.__init__ on a library and an alias file
InitIndex(lib, file, writable) ==
    /\ folders = ScanFolders(lib.listing)
    /\ files = lib.files
    /\ processed = {}
    /\ authors_by_surname = ScanAuthors(folders)
    /\ author_aliases = LoadAliases(file)
    /\ alias_file = file
    /\ alias_writable = writable
    /\ disk_dirs = ListedDirs(lib.listing)
    /\ disk_files = lib.files
    /\ stage_status = [b \in {} |-> ""]
    /\ registered = {}
    /\ marked = {}
    /\ saved_aliases = EmptyMap
    /\ calls = 0

InitWith(lib, file, writable) ==
    InitIndex(lib, file, writable) /\ config = NoConfig /\ last = NoCall

(***************************************************************************)
(* Author canonicalisation: match_author, register_author, _save_alias     *)
(***************************************************************************)

AuthorInputs ==
    {"", "R.A. Salvatore", "Bob Salvatore", "J Tolkien", "X Tolkien",
     "X Tolkien (Author)", "J Tolkien, Ed - editor",
     "AM Leckie", "JRR Tolkien", "New Author"}

AliasVariants == {"", "X Tolkien"}
AliasCanonicals == {"", "C Tolkien"}
NewAuthors == {"X Tolkien", "Bob Salvatore", "New Author"}

\* match_author(desired); m is what match_author computes
MatchAuthorStep(desired, m) ==
    /\ calls < MaxCalls
    /\ author_aliases' =
          IF m.save THEN save_alias_map(author_aliases, desired, m.ret)
          ELSE author_aliases
    /\ alias_file' =
          IF m.save
          THEN save_alias_file(alias_file, author_aliases, desired, m.ret,
                               alias_writable)
          ELSE alias_file
    /\ saved_aliases' =
          IF m.save /\ desired # m.ret THEN MapSet(saved_aliases, desired, m.ret)
          ELSE saved_aliases
    /\ last' = [NoCall EXCEPT !.op = "match_author", !.arg = desired, !.ret = m.ret,
                              !.flag = m.save]
    /\ calls' = calls + 1
    /\ UNCHANGED <<folders, files, processed, authors_by_surname, alias_writable, config,
                   disk_dirs, disk_files, stage_status, registered, marked>>

MatchAuthor(desired) ==
    MatchAuthorStep(desired, match_author(author_aliases, authors_by_surname, desired))

SaveAlias(variant, canonical) ==
    /\ calls < MaxCalls
    /\ author_aliases' = save_alias_map(author_aliases, variant, canonical)
    /\ alias_file' = save_alias_file(alias_file, author_aliases, variant, canonical,
                                     alias_writable)
    /\ saved_aliases' =
          IF variant # canonical THEN MapSet(saved_aliases, variant, canonical)
          ELSE saved_aliases
    /\ last' = [NoCall EXCEPT !.op = "_save_alias", !.arg = variant, !.arg2 = canonical]
    /\ calls' = calls + 1
    /\ UNCHANGED <<folders, files, processed, authors_by_surname, alias_writable, config,
                   disk_dirs, disk_files, stage_status, registered, marked>>

RegisterAuthor(author_name) ==
    /\ calls < MaxCalls
    /\ authors_by_surname' = register_author(authors_by_surname, author_name)
    /\ last' = [NoCall EXCEPT !.op = "register_author", !.arg = author_name]
    /\ calls' = calls + 1
    /\ UNCHANGED <<folders, files, processed, author_aliases, alias_file,
                   alias_writable, config, disk_dirs, disk_files, stage_status, registered,
                   marked, saved_aliases>>

InitAuthors == \E file \in {NoAliasFile, SomeAliasFile}, writable \in BOOLEAN :
                  InitWith(AuthorLibrary, file, writable)

NextAuthors ==
    \/ \E d \in AuthorInputs : MatchAuthor(d)
    \/ \E v \in AliasVariants, c \in AliasCanonicals : SaveAlias(v, c)
    \/ \E a \in NewAuthors : RegisterAuthor(a)

SpecAuthors == InitAuthors /\ [][NextAuthors]_vars

(***************************************************************************)
(* Claims about author canonicalisation (checked under SpecAuthors)        *)
(***************************************************************************)

\* the step just taken is a call match_author(d)
IsMatchAuthorCall == last'.op = "match_author" /\ calls' = calls + 1

\* before the call, two or more author folders share the surname of the name and
\* none of them equals the name or its cleaned form, or matches the cleaned form
\* after initials or generic normalisation
SeveralUnmatched(candidates, d, cleaned) ==
    /\ Len(candidates) >= 2
    /\ \A i \in DOMAIN candidates :
          /\ candidates[i] # d
          /\ candidates[i] # cleaned
          /\ AuthorNorm(candidates[i]) # AuthorNorm(cleaned)
          /\ Normalized(candidates[i]) # Normalized(cleaned)

SeveralUnmatchedFor(by_surname, d) ==
    SeveralUnmatched(ListGet(by_surname, Surname(Cleaned(d))), d, Cleaned(d))

\* the call returned its input and wrote no alias, in memory or on disk
NothingGuessed ==
    /\ last'.ret = last'.arg
    /\ author_aliases' = author_aliases
    /\ alias_file' = alias_file

\* C7 as stated: whenever the alias table has no entry for the name, two or more
\* author folders share its surname and none of them matches it exactly or after
\* initials/generic normalisation, match_author returns the input unchanged and
\* writes no alias.
C7_NoGuess_AsStated ==
    [][(/\ IsMatchAuthorCall
        /\ last'.arg \notin DOMAIN author_aliases
        /\ SeveralUnmatchedFor(authors_by_surname, last'.arg))
       => NothingGuessed]_vars

\* C7 amended: the same, provided the alias table has no entry for the cleaned
\* form of the name either (role suffixes and co-authors stripped).
C7_NoGuess ==
    [][(/\ IsMatchAuthorCall
        /\ last'.arg \notin DOMAIN author_aliases
        /\ Cleaned(last'.arg) \notin DOMAIN author_aliases
        /\ SeveralUnmatchedFor(authors_by_surname, last'.arg))
       => NothingGuessed]_vars

\* C7 witness: match_author has just returned a name unchanged that has no alias,
\* although two or more unmatched folders share its surname
C7_Witness ==
    /\ last.op = "match_author"
    /\ last.ret = last.arg
    /\ ~last.flag
    /\ last.arg \notin DOMAIN author_aliases
    /\ Cleaned(last.arg) \notin DOMAIN author_aliases
    /\ SeveralUnmatchedFor(authors_by_surname, last.arg)

C9_MatchPersisted ==
    (last.op = "match_author" /\ last.ret # last.arg)
        => AliasGet(author_aliases, last.arg) = last.ret

\* C9 witness: match_author has adopted the only folder with the surname of a name
\* that had no alias, and the alias table now maps the name to that folder
C9_Witness ==
    /\ last.op = "match_author"
    /\ last.arg = "Bob Salvatore"
    /\ last.ret = "R. A. Salvatore"
    /\ last.flag
    /\ AliasGet(author_aliases, last.arg) = last.ret



(***************************************************************************)
(* Folder index: reuse_existing, register_new_folder, mark_processed,      *)
(* register_new_file, file_exists                                          *)
(***************************************************************************)

FolderParents == {<<"Ann Leckie">>, <<"New Author">>}
FolderNames == {"Provenance", "Provenance (2017)", "The Raven Tower", "Raven Tower"}
SourceStems == {"book", "other"}
FileDirs == {<<"Ann Leckie", "Provenance">>, <<"New Author", "Provenance">>}

ReuseExisting(parent, desired) ==
    /\ calls < MaxCalls
    /\ last' = [NoCall EXCEPT !.op = "reuse_existing", !.parent = parent,
                              !.arg = desired,
                              !.ret = reuse_existing(folders, parent, desired)]
    /\ calls' = calls + 1
    /\ UNCHANGED <<folders, files, processed, authors_by_surname, author_aliases,
                   alias_file, alias_writable, config, disk_dirs, disk_files, stage_status,
                   registered, marked, saved_aliases>>

RegisterNewFolder(parent, folder_name) ==
    /\ calls < MaxCalls
    /\ folders' = register_new_folder(folders, parent, folder_name)
    /\ registered' = registered \cup {<<parent, folder_name>>}
    /\ last' = [NoCall EXCEPT !.op = "register_new_folder", !.parent = parent,
                              !.arg = folder_name]
    /\ calls' = calls + 1
    /\ UNCHANGED <<files, processed, authors_by_surname, author_aliases, alias_file,
                   alias_writable, config, disk_dirs, disk_files, stage_status, marked,
                   saved_aliases>>

MarkProcessed(source_stem) ==
    /\ calls < MaxCalls
    /\ processed' = mark_processed(processed, source_stem)
    /\ marked' = marked \cup {source_stem}
    /\ last' = [NoCall EXCEPT !.op = "mark_processed", !.arg = source_stem,
                              !.flag = mark_processed_ret(processed, source_stem)]
    /\ calls' = calls + 1
    /\ UNCHANGED <<folders, files, authors_by_surname, author_aliases, alias_file,
                   alias_writable, config, disk_dirs, disk_files, stage_status, registered,
                   saved_aliases>>

RegisterNewFile(dest_dir, filename) ==
    /\ calls < MaxCalls
    /\ files' = register_new_file(files, dest_dir, filename)
    /\ last' = [NoCall EXCEPT !.op = "register_new_file", !.parent = dest_dir,
                              !.arg = filename]
    /\ calls' = calls + 1
    /\ UNCHANGED <<folders, processed, authors_by_surname, author_aliases, alias_file,
                   alias_writable, config, disk_dirs, disk_files, stage_status, registered,
                   marked, saved_aliases>>

FileExists(dest_dir, filename) ==
    /\ calls < MaxCalls
    /\ last' = [NoCall EXCEPT !.op = "file_exists", !.parent = dest_dir,
                              !.arg = filename,
                              !.flag = file_exists(files, dest_dir, filename)]
    /\ calls' = calls + 1
    /\ UNCHANGED <<folders, files, processed, authors_by_surname, author_aliases,
                   alias_file, alias_writable, config, disk_dirs, disk_files, stage_status,
                   registered, marked, saved_aliases>>

InitFolders ==
    \E lib \in {EmptyLibrary, PlainLibrary,
                EditionLibrary("Provenance", "Provenance (2017)"),
                EditionLibrary("Provenance (2017)", "Provenance")} :
        InitWith(lib, NoAliasFile, TRUE)

NextFolders ==
    \/ \E p \in FolderParents, n \in FolderNames : ReuseExisting(p, n)
    \/ \E p \in FolderParents, n \in FolderNames : RegisterNewFolder(p, n)
    \/ \E k \in SourceStems : MarkProcessed(k)
    \/ \E d \in FileDirs : RegisterNewFile(d, "book.m4b")
    \/ \E d \in FileDirs : FileExists(d, "book.m4b")

SpecFolders == InitFolders /\ [][NextFolders]_vars

(***************************************************************************)
(* Claims about the folder index (checked under SpecFolders)               *)
(***************************************************************************)

\* C3: every folder that existed under a parent when the index was built, or was
\* registered since, is still known to the index: reuse_existing(parent, name)
\* returns name itself, and no earlier entry is lost or replaced by a later one.
C3_IndexKeepsFolders ==
    \A e \in disk_dirs \cup registered : reuse_existing(folders, e[1], e[2]) = e[2]

\* C6: a call mark_processed(k) returns true exactly when an earlier call on the
\* same index was made with the same k.
C6_MarkProcessed ==
    [][(last'.op = "mark_processed" /\ calls' = calls + 1)
       => (last'.flag <=> last'.arg \in marked)]_vars

\* C6 witness: a key has been marked, then another key, and the second call with
\* the first key has returned true
C6_Witness ==
    /\ last.op = "mark_processed"
    /\ last.flag
    /\ calls = 3
    /\ marked = SourceStems


(***************************************************************************)
(* Destination paths: build_plex_path on a shared index                    *)
(***************************************************************************)

\* bound on the number of build_plex_path calls of one behaviour
MaxBuilds == 2

BuildAuthors == {"", "Ann Leckie", "Bob Salvatore", "X Tolkien"}

\* <<title, series, position>>
BuildBooks ==
    {<<"Raven Tower", "", "">>,
     <<"Provenance", "", "2019">>,
     <<"Ancillary Justice", "Imperial Radch", "1">>,
     <<"Ancillary Justice", "Imperial Radch", "">>,
     <<"Provenance", "provenance", "">>,
     <<"", "Imperial Radch", "2019">>}

BuildInputs ==
    {[author |-> a, title |-> b[1], series |-> b[2], position |-> b[3]] :
        a \in BuildAuthors, b \in BuildBooks}

\* what build_plex_path does to the index: match_author may save an alias, then the
\* author and every path component are registered
ApplyBuild(b) ==
    /\ author_aliases' =
          IF b.save THEN save_alias_map(author_aliases, b.desired, b.author)
          ELSE author_aliases
    /\ alias_file' =
          IF b.save
          THEN save_alias_file(alias_file, author_aliases, b.desired, b.author,
                               alias_writable)
          ELSE alias_file
    /\ saved_aliases' =
          IF b.save /\ b.desired # b.author
          THEN MapSet(saved_aliases, b.desired, b.author)
          ELSE saved_aliases
    /\ authors_by_surname' =
          IF b.author # "" THEN register_author(authors_by_surname, b.author)
          ELSE authors_by_surname
    /\ folders' = RegisterAll(folders, _path_components(LevelPath(b.levels)))
    /\ registered' = registered \cup Range(_path_components(LevelPath(b.levels)))

\* build_plex_path(root, metadata, index); b is what build_plex_path computes
BuildStep(metadata, b) ==
    /\ calls < MaxBuilds
    /\ ApplyBuild(b)
    /\ last' = [NoCall EXCEPT !.op = "build_plex_path", !.metadata = metadata,
                              !.path = LevelPath(b.levels),
                              !.kinds = LevelKinds(b.levels),
                              !.flag = (last.op = "build_plex_path"
                                        /\ last.metadata = metadata)]
    /\ calls' = calls + 1
    /\ UNCHANGED <<files, processed, alias_writable, config, disk_dirs, disk_files,
                   stage_status, marked>>

BuildPlexPath(metadata) ==
    BuildStep(metadata,
              build_plex_path(folders, author_aliases, authors_by_surname, metadata))

InitBuild == \E lib \in {EmptyLibrary, BuildLibrary} : InitWith(lib, NoAliasFile, TRUE)

NextBuild == \E metadata \in BuildInputs : BuildPlexPath(metadata)

SpecBuild == InitBuild /\ [][NextBuild]_vars

(***************************************************************************)
(* Claims about build_plex_path (checked under SpecBuild)                  *)
(***************************************************************************)

\* every <<parent, folder name>> the index knows
IndexedFolders(fmap) ==
    UNION {{<<p, fmap[p][i][2]>> : i \in DOMAIN fmap[p]} : p \in DOMAIN fmap}

\* every author name of the surname index
IndexedAuthors(by_surname) ==
    UNION {Range(by_surname[k]) : k \in DOMAIN by_surname}

\* the step just taken is a call of build_plex_path
IsBuildCall == last'.op = "build_plex_path" /\ calls' = calls + 1

\* C1: if build_plex_path(root, M, I) returned P and registered P's segments in I,
\* calling build_plex_path(root, M, I) again with the same metadata returns the
\* same path P and adds no new folder name to the index.
C1_BuildIdempotent ==
    [][(/\ IsBuildCall
        /\ last.op = "build_plex_path"
        /\ last'.metadata = last.metadata)
       => (/\ last'.path = last.path
           /\ IndexedFolders(folders') \subseteq IndexedFolders(folders)
           /\ IndexedAuthors(authors_by_surname')
                 \subseteq IndexedAuthors(authors_by_surname))]_vars

\* C1 witness: build_plex_path has been called twice in a row with the metadata of
\* a book whose title is a near-match of an existing folder, which the path reuses
C1_Witness ==
    /\ last.op = "build_plex_path"
    /\ last.flag
    /\ Len(last.path) >= 2
    /\ last.metadata.title = "Raven Tower"
    /\ last.path[2] = "The Raven Tower"

\* the folder name is not indexed under the parent, yet it is a near-match of a
\* folder that is
IntroducesNearMatch(fmap, parent, name) ==
    /\ parent \in DOMAIN fmap
    /\ ~InSeq(name, DictValues(fmap[parent]))
    /\ \E i \in DOMAIN fmap[parent] : NearMatch(Normalized(name), fmap[parent][i][1])

\* C4 as stated: build_plex_path passes the folder name of every directory level
\* through reuse_existing, so the returned path never introduces a folder name
\* that is a near-match of a different folder already indexed under the same
\* parent.
C4_EveryLevelReused_AsStated ==
    [][IsBuildCall
       => \A i \in DOMAIN last'.path :
             ~IntroducesNearMatch(folders, SubSeq(last'.path, 1, i - 1),
                                  last'.path[i])]_vars

\* C4 amended: the series folder and a title folder without "Book N - " prefix
\* are passed through reuse_existing, so at these levels the returned path never
\* introduces a folder name that is a near-match of a different folder already
\* indexed under the same parent.
C4_SeriesAndTitleReused ==
    [][IsBuildCall
       => \A i \in DOMAIN last'.path :
             last'.kinds[i] \in {"series", "title"}
                => ~IntroducesNearMatch(folders, SubSeq(last'.path, 1, i - 1),
                                        last'.path[i])]_vars

\* C4 witness: a title that is a near-match of an indexed sibling has been placed
\* in that sibling instead of a folder of its own
C4_Witness ==
    /\ last.op = "build_plex_path"
    /\ Len(last.path) = 2
    /\ last.kinds[2] = "title"
    /\ last.path[2] # SanitizedOr(last.metadata.title, "Unknown")
    /\ last.path[2] = "The Raven Tower"

(***************************************************************************)
(* Path parsing: parse_path on bounded source paths                        *)
(***************************************************************************)

ParseFolders == {"incoming", "Ann Leckie", "Ann Leckie - Imperial Radch", "Imperial Radch"}

ParseParents ==
    {"Warhammer-Warhammer-#1-Horus Rising",
     "Ann Leckie-Imperial Radch-#2-Ancillary Sword",
     "Imperial Radch 1 - Ancillary Justice",
     "Mistborn [01] The Final Empire",
     "Ann Leckie - Provenance",
     "Provenance (2017)",
     "Provenance (Ann Leckie)",
     "Provenance",
     "Imperial Radch"}

ParseFiles == {"book.m4b", "Provenance.m4b", "01 - Provenance.m4b"}

\* /file, /parent/file, /folder/parent/file and /Ann Leckie/folder/parent/file
ParsePaths ==
    {<<f>> : f \in ParseFiles}
    \cup {<<p, f>> : p \in ParseParents, f \in ParseFiles}
    \cup {<<g, p, f>> : g \in ParseFolders, p \in ParseParents, f \in ParseFiles}
    \cup {<<"Ann Leckie", g, p, f>> : g \in ParseFolders, p \in ParseParents, f \in ParseFiles}

\* no source_dir, or a directory holding one audio file
ParseDirs == {None, [given |-> TRUE, audio |-> <<"1991 - Barrayar">>]}

\* a caller is about to parse a source path
InitParse ==
    /\ InitIndex(EmptyLibrary, NoAliasFile, TRUE)
    /\ config = NoConfig
    /\ \E source_path \in ParsePaths, source_dir \in ParseDirs :
          last = [NoCall EXCEPT !.op = "source", !.path = source_path,
                                !.flag = source_dir.given, !.kinds = source_dir.audio]

\* parse_path(source_path, source_dir)
ParsePath ==
    /\ last.op = "source"
    /\ last' = [last EXCEPT !.op = "parse_path",
                            !.metadata = parse_path(last.path, [given |-> last.flag,
                                                                audio |-> last.kinds])]
    /\ calls' = calls + 1
    /\ UNCHANGED <<folders, files, processed, authors_by_surname, author_aliases,
                   alias_file, alias_writable, config, disk_dirs, disk_files, stage_status,
                   registered, marked, saved_aliases>>

NextParse == ParsePath

SpecParse == InitParse /\ [][NextParse]_vars

(***************************************************************************)
(* Claims about parse_path (checked under SpecParse)                       *)
(***************************************************************************)

\* C2: for every input path, the result of parse_path never has an author and a
\* series that are both non-empty and equal when compared case-insensitively
C2_AuthorNeverSeries ==
    last.op = "parse_path" =>
        ~(/\ last.metadata.author # ""
          /\ last.metadata.series # ""
          /\ Lower(last.metadata.author) = Lower(last.metadata.series))

(***************************************************************************)
(* stages/organize.py: the organize stage                                  *)
(*                                                                         *)
(* A book is what one run of the stage is given and what its surroundings  *)
(* answer: the source path, the audio file _find_audio_file picks in it    *)
(* ("" when there is none), the author and title of its embedded tags, the *)
(* author of the accepted Audible match and the answer of the AI resolver  *)
(* (NoAI standing for None).  The library root is /library; the stage's    *)
(* manifest entry exists when the stage starts.                            *)
(***************************************************************************)

\* the most books one batch holds
MaxRuns == 2

\* config.nfs_output_dir, as a source path
LibraryRoot == <<"library">>

\* what ai.resolve returns when it has no answer
NoAI == NoMetadata

\* Path(name).stem
Stem(name) ==
    LET i == LastIndexOf(Chars(name), ".")
    IN  IF 1 < i /\ i < Len(name) THEN SubSeq(name, 1, i - 1) ELSE name

\* the source path lies in the library; its path below the library root
InLibrary(source) == SubSeq(source, 1, Len(LibraryRoot)) = LibraryRoot
BelowRoot(source) == SubSeq(source, Len(LibraryRoot) + 1, Len(source))

\* source_file.parent
SourceDir(book) ==
    IF book.is_dir THEN book.source ELSE SubSeq(book.source, 1, Len(book.source) - 1)

\* _find_audio_file: the name of the audio file, "" for None; a file of the
\* library is found while it is on disk
_find_audio_file(book, fs) ==
    IF InLibrary(book.source) /\ <<BelowRoot(SourceDir(book)), book.audio>> \notin fs
    THEN "" ELSE book.audio

\* parse_target
ParseTarget(book) == IF book.is_dir THEN Append(book.source, book.audio) ELSE book.source

\* spellings of author names as the sources give them
AuthorSpellings ==
    {"", "Ann Leckie", " Ann Leckie ", "ann leckie", "ANN LECKIE", "Ann  Leckie",
     "AM Leckie", "Unknown", "unknown ", "_unsorted", "_Unsorted", "Various", "VARIOUS",
     "Various Artists", " "}

\* source.strip().lower(), worked out once for the names of the model
StripLowerTable ==
    [source \in NameUniverse \cup AuthorSpellings |-> Lower(Join(StripCs(Chars(source))))]
StripLower(source) ==
    IF source \in NameUniverse \cup AuthorSpellings THEN StripLowerTable[source]
    ELSE Lower(Join(StripCs(Chars(source))))

\* ai.needs_resolution comparing the authors as they are spelled
needs_resolution_as_spelled(path_author, tag_author, audible_author) ==
    LET authors == {path_author, tag_author, audible_author}
                   \ {"", "unknown", "_unsorted", "various"}
    IN  Cardinality(authors) > 1 \/ Cardinality(authors) = 0

\* ai.needs_resolution
needs_resolution(path_author, tag_author, audible_author) ==
    LET authors == {StripLower(source) :
                       source \in {path_author, tag_author, audible_author}}
                   \ {"", "unknown", "_unsorted", "various"}
    IN  Cardinality(authors) > 1 \/ Cardinality(authors) = 0

\* the tag title replaces a path title that is just the file's stem
TagTitle(metadata, book) ==
    IF Len(book.tag_title) > 3 /\ metadata.title = Stem(book.audio)
    THEN [metadata EXCEPT !.title = book.tag_title]
    ELSE metadata

\* the author is settled from the AI answer, the Audible match or the tags
ResolveAuthor(metadata, book, ai_all) ==
    IF /\ ai_all \/ needs_resolution(metadata.author, book.tag_author, book.audible_author)
       /\ book.ai # NoAI
    THEN [key \in DOMAIN metadata |->
             IF book.ai[key] # "" THEN book.ai[key] ELSE metadata[key]]
    ELSE IF book.audible_author # "" THEN [metadata EXCEPT !.author = book.audible_author]
    ELSE IF book.tag_author # "" THEN [metadata EXCEPT !.author = book.tag_author]
    ELSE metadata

\* dest_dir.mkdir(parents=True, exist_ok=True)
Mkdir(dirs, path) == dirs \cup Range(_path_components(path))

\* the files directly in a directory
FilesIn(fs, directory) == {f \in fs : f[1] = directory}

\* copy_to_library: the files on disk afterwards
copy_to_library(fs, dest_dir, filename) == fs \cup {<<dest_dir, filename>>}

\* the files moved from source_dir to dest_dir: a file that is at the destination
\* with the same size stays where it is
MoveFiles(fs, moving, dest_dir, same_size) ==
    LET moved == {f \in moving : ~(same_size /\ <<dest_dir, f[2]>> \in fs)}
    IN  (fs \ moved) \cup {<<dest_dir, f[2]>> : f \in moved}

\* _move_book_directory: the files on disk afterwards
_move_book_directory(fs, source_dir, dest_dir, same_size) ==
    MoveFiles(fs, FilesIn(fs, source_dir), dest_dir, same_size)

\* move_in_library: the files on disk afterwards
move_in_library(fs, source_dir, filename, dest_dir, same_size) ==
    MoveFiles(fs, {<<source_dir, filename>>}, dest_dir, same_size)

\* _cleanup_empty_parents(directory, stop_at=None): the directories on disk
\* afterwards; the walk is followed up to the library root
RECURSIVE _cleanup_empty_parents(_, _, _)
_cleanup_empty_parents(dirs, fs, directory) ==
    IF /\ directory # <<>>
       /\ <<SubSeq(directory, 1, Len(directory) - 1), directory[Len(directory)]>> \in dirs
       /\ FilesIn(fs, directory) = {}
       /\ ~\E d \in dirs : d[1] = directory
    THEN _cleanup_empty_parents(
             dirs \ {<<SubSeq(directory, 1, Len(directory) - 1), directory[Len(directory)]>>},
             fs, SubSeq(directory, 1, Len(directory) - 1))
    ELSE dirs

\* what the disk can do to a copy or a move
DiskAnswers == {"ok", "same_size", "mkdir_fails", "copy_fails"}

\* how a run that found its audio file and was not skipped in the batch ends
Outcome(book, dest_dir, io) ==
    IF config.reorganize /\ book.is_dir /\ BelowRoot(SourceDir(book)) = dest_dir
    THEN "already_placed"
    ELSE IF ~config.reorganize /\ file_exists(files, dest_dir, book.audio)
    THEN "already_exists"
    ELSE IF config.dry_run THEN "dry_run"
    ELSE IF io \in {"mkdir_fails", "copy_fails"} THEN "raised"
    ELSE "organized"

\* the files on disk after the move or the copy
PlaceFile(fs, book, dest_dir, same_size) ==
    IF config.reorganize /\ book.is_dir
    THEN _move_book_directory(fs, BelowRoot(SourceDir(book)), dest_dir, same_size)
    ELSE IF config.reorganize
    THEN move_in_library(fs, BelowRoot(SourceDir(book)), book.audio, dest_dir, same_size)
    ELSE copy_to_library(fs, dest_dir, book.audio)

\* the directories on disk after the move or the copy: a move is followed by
\* _cleanup_empty_parents, except a move_in_library that found the file in place
PlaceDirs(dirs, fs, book, dest_dir, same_size) ==
    IF config.reorganize /\ (book.is_dir \/ ~same_size)
    THEN _cleanup_empty_parents(Mkdir(dirs, dest_dir),
                                PlaceFile(fs, book, dest_dir, same_size),
                                BelowRoot(SourceDir(book)))
    ELSE Mkdir(dirs, dest_dir)

\* the record of a run of the stage
OrganizeCall(book, stem, metadata, levels, outcome, io) ==
    [NoCall EXCEPT !.op = "organize", !.arg = book.hash, !.arg2 = stem,
                   !.metadata = metadata, !.path = LevelPath(levels),
                   !.kinds = LevelKinds(levels), !.ret = outcome, !.io = io]

\* lines 51-54 and 57-60: no audio file (FAILED), or a stem already processed in
\* this batch (COMPLETED)
OrganizeEarly(book, stem, status, outcome) ==
    /\ stage_status' = MapSet(stage_status, book.hash, status)
    /\ marked' = IF outcome = "skipped_batch" THEN marked \cup {stem} ELSE marked
    /\ last' = OrganizeCall(book, stem, NoMetadata, <<>>, outcome, "ok")
    /\ calls' = calls + 1
    /\ UNCHANGED <<folders, files, processed, authors_by_surname, author_aliases,
                   alias_file, alias_writable, config, disk_dirs, disk_files, registered,
                   saved_aliases>>

\* lines 62-248: the stem is marked, the destination built and the file placed
OrganizeEnd(book, io, metadata, b, outcome) ==
    /\ io = "same_size" => <<LevelPath(b.levels), book.audio>> \in disk_files
    /\ outcome \notin {"organized", "raised"} => io = "ok"
    /\ processed' = mark_processed(processed, Stem(book.audio))
    /\ marked' = marked \cup {Stem(book.audio)}
    /\ ApplyBuild(b)
    /\ disk_dirs' =
          IF outcome = "organized"
          THEN PlaceDirs(disk_dirs, disk_files, book, LevelPath(b.levels), io = "same_size")
          ELSE IF io = "copy_fails" THEN Mkdir(disk_dirs, LevelPath(b.levels))
          ELSE disk_dirs
    /\ disk_files' =
          IF outcome = "organized"
          THEN PlaceFile(disk_files, book, LevelPath(b.levels), io = "same_size")
          ELSE disk_files
    /\ files' =
          IF outcome = "organized"
          THEN register_new_file(files, LevelPath(b.levels), book.audio)
          ELSE files
    /\ stage_status' =
          MapSet(stage_status, book.hash,
                 IF outcome = "raised" THEN "running" ELSE "completed")
    /\ last' = OrganizeCall(book, Stem(book.audio), metadata, b.levels, outcome, io)
    /\ calls' = calls + 1
    /\ UNCHANGED <<alias_writable, config>>

OrganizeTo(book, io, metadata, b) ==
    OrganizeEnd(book, io, metadata, b, Outcome(book, LevelPath(b.levels), io))

OrganizeBook(book, io, metadata) ==
    OrganizeTo(book, io, metadata,
               build_plex_path(folders, author_aliases, authors_by_surname, metadata))

(***************************************************************************)
(* The organize stage on the books of one batch sharing one index          *)
(***************************************************************************)

Book(hash, source, is_dir, audio) ==
    [hash |-> hash, source |-> source, is_dir |-> is_dir, audio |-> audio,
     tag_author |-> "", tag_title |-> "", audible_author |-> "", ai |-> NoAI]

\* books found under the source roots /in, /in2 and /incoming
IncomingBooks ==
    {Book("h1", <<"in", "Ann Leckie", "Provenance">>, TRUE, "Provenance.m4b"),
     Book("h2", <<"incoming", "Provenance">>, TRUE, "Provenance.m4b"),
     Book("h3", <<"incoming", "Raven Tower">>, TRUE, "audiobook.m4b"),
     [Book("h4", <<"incoming", "Ancillary Justice">>, TRUE, "audiobook.m4b")
          EXCEPT !.tag_author = "AM Leckie"],
     Book("h5", <<"incoming", "Imperial Radch 1 - Ancillary Justice">>, TRUE, "book.m4b"),
     [Book("h6", <<"in", "Ann Leckie", "Ancillary Sword">>, TRUE, "sword.m4b")
          EXCEPT !.audible_author = "Anne Leckie",
                 !.ai = [author |-> "Ann Leckie", title |-> "Ancillary Sword",
                         series |-> "Imperial Radch", position |-> "2"]],
     Book("h7", <<"incoming", "Empty">>, TRUE, ""),
     [Book("h8", <<"incoming", "rt.m4b">>, FALSE, "rt.m4b")
          EXCEPT !.tag_title = "The Raven Tower"],
     Book("h9", <<"in2", "Ann Leckie", "Provenance">>, TRUE, "book.m4b")}

\* books found in the library itself, for a reorganize batch
LibraryBooks ==
    {Book("r1", <<"library", "Ann Leckie", "Provenance">>, TRUE, "book.m4b"),
     Book("r2", <<"library", "_unsorted", "Raven Tower">>, TRUE, "rt.m4b"),
     [Book("r3", <<"library", "_unsorted", "Provenance">>, TRUE, "book.m4b")
          EXCEPT !.tag_author = "Ann Leckie"],
     Book("r4", <<"library", "Misc", "Ancillary Justice">>, TRUE, "aj.m4b"),
     Book("r5", <<"library", "Misc", "loose.m4b">>, FALSE, "loose.m4b")}

Books == IncomingBooks \cup LibraryBooks

BookOf(hash) == CHOOSE book \in Books : book.hash = hash

\* parse_path(str(parse_target)), evaluated once for every book
ParseTable ==
    [book \in {b \in Books : b.audio # ""} |-> parse_path(ParseTarget(book), None)]

\* lines 69-174: the metadata the destination is built from
StageMetadata(book, ai_all) ==
    ResolveAuthor(TagTitle(ParseTable[book], book), book, ai_all)

\* a library with authors, a series, books and unsorted books
OrganizeLibrary ==
    [listing |-> (<<>> :> <<"R. A. Salvatore", "J Tolkien", "C Tolkien", "Ann Leckie",
                            "Misc", "_unsorted">>) @@
                 (<<"Ann Leckie">> :> <<"The Raven Tower", "Imperial Radch",
                                        "Provenance">>) @@
                 (<<"Ann Leckie", "Imperial Radch">> :> <<"Ancillary Justice">>) @@
                 (<<"Misc">> :> <<"Ancillary Justice">>) @@
                 (<<"_unsorted">> :> <<"Raven Tower", "Provenance">>),
     files |-> {<<(<<"Ann Leckie", "Provenance">>), "book.m4b">>,
                <<(<<"_unsorted", "Raven Tower">>), "rt.m4b">>,
                <<(<<"_unsorted", "Provenance">>), "book.m4b">>,
                <<(<<"Misc", "Ancillary Justice">>), "aj.m4b">>,
                <<(<<"Misc">>), "loose.m4b">>}]

\* stages.organize.run(source_path, book_hash, config, manifest, dry_run, index=index,
\* reorganize=reorganize) for a book of the batch; io is the disk's answer
Organize(book, io) ==
    /\ calls < MaxRuns
    /\ book.hash \notin DOMAIN stage_status
    /\ InLibrary(book.source) = config.reorganize
    /\ IF _find_audio_file(book, disk_files) = ""
       THEN io = "ok" /\ OrganizeEarly(book, "", "failed", "failed")
       ELSE IF mark_processed_ret(processed, Stem(book.audio))
       THEN io = "ok" /\ OrganizeEarly(book, Stem(book.audio), "completed", "skipped_batch")
       ELSE OrganizeBook(book, io, StageMetadata(book, config.ai_all))

\* a batch: the index is built on the library, the flags are those of the run
InitOrganize ==
    \E lib \in {EmptyLibrary, OrganizeLibrary}, dry_run, reorganize, ai_all \in BOOLEAN :
        /\ reorganize => lib = OrganizeLibrary
        /\ InitIndex(lib, NoAliasFile, TRUE)
        /\ config = [NoConfig EXCEPT !.dry_run = dry_run, !.reorganize = reorganize,
                                     !.ai_all = ai_all]
        /\ last = NoCall

NextOrganize == \E book \in Books, io \in DiskAnswers : Organize(book, io)

SpecOrganize == InitOrganize /\ [][NextOrganize]_vars

(***************************************************************************)
(* Claims about the organize stage (checked under SpecOrganize)            *)
(***************************************************************************)

\* the step is a run of the stage
IsOrganizeRun == last'.op = "organize" /\ calls' = calls + 1

\* no source gives the book an author: not the path, the tags, Audible or the AI
Unresolved(book) ==
    /\ book.audio # ""
    /\ ParseTable[book].author = ""
    /\ book.tag_author = ""
    /\ book.audible_author = ""
    /\ book.ai = NoAI

\* after the run, the stage is completed and the book's file is on disk under
\* <library>/_unsorted/
EndsUnsorted ==
    /\ stage_status'[last'.arg] = "completed"
    /\ last'.path # <<>>
    /\ Head(last'.path) = "_unsorted"
    /\ <<last'.path, BookOf(last'.arg).audio>> \in disk_files'

\* C5: in a batch sharing one index, a run of the stage whose audio file has the
\* stem of an earlier run's audio file ends with the stage completed and leaves
\* the library untouched, so only the first of them copies or moves a file
C5_SameStemOnce ==
    [][(IsOrganizeRun /\ last'.arg2 \in marked)
          => /\ stage_status'[last'.arg] = "completed"
             /\ UNCHANGED <<disk_dirs, disk_files>>]_vars

\* C5 witness: the book of /in/Ann Leckie/Provenance was copied into the library
\* and the same book found under /incoming was then skipped
C5_Witness ==
    /\ last.op = "organize"
    /\ last.arg = "h2"
    /\ last.ret = "skipped_batch"
    /\ <<(<<"Ann Leckie", "Provenance">>), "Provenance.m4b">> \in disk_files

\* C10: every run of the stage on a book whose author cannot be resolved from any
\* source ends with the stage completed and the book's file placed under
\* <library>/_unsorted/: it neither raises nor finishes without placing the file
C10_AlwaysUnsorted ==
    [][(IsOrganizeRun /\ Unresolved(BookOf(last'.arg))) => EndsUnsorted]_vars

\* C10 failing state: in a run that is not a dry run, after the book of
\* /incoming/Ancillary Justice/audiobook.m4b was organized, the book of
\* /incoming/Raven Tower/audiobook.m4b, which has no resolvable author, ended
\* completed with no file of it anywhere under _unsorted
C10_SkippedUnplaced ==
    /\ last.op = "organize"
    /\ last.arg = "h3"
    /\ last.ret = "skipped_batch"
    /\ ~config.dry_run
    /\ Unresolved(BookOf("h3"))
    /\ "h4" \in DOMAIN stage_status
    /\ stage_status["h3"] = "completed"
    /\ ~\E f \in disk_files : f[2] = BookOf("h3").audio /\ Head(f[1]) = "_unsorted"

\* C10, as far as it holds: a run of the stage on a book without a resolvable
\* author, whose stem was not processed earlier in the batch, that is not a dry
\* run and whose copy or move does not fail, ends completed with the book's file
\* under <library>/_unsorted/
C10_UnsortedWhenPlaced ==
    [][(/\ IsOrganizeRun
        /\ Unresolved(BookOf(last'.arg))
        /\ last'.arg2 \notin marked
        /\ ~config.dry_run
        /\ last'.io \in {"ok", "same_size"})
          => EndsUnsorted]_vars

\* C10, as far as it holds: a book without a resolvable author was copied or
\* moved to a folder under _unsorted
C10_Placed ==
    /\ last.op = "organize"
    /\ last.ret = "organized"
    /\ Unresolved(BookOf(last.arg))
    /\ Head(last.path) = "_unsorted"
    /\ <<last.path, BookOf(last.arg).audio>> \in disk_files
    /\ stage_status[last.arg] = "completed"

(***************************************************************************)
(* api/search.py: score_results                                            *)
(***************************************************************************)

\* a search result. title_ratio and author_ratios are what
\* fuzz.token_sort_ratio and fuzz.partial_ratio (one per author) give for it
\* against the hints, in tenths of a point; score is set by score_results
Hit(asin, title, author_str, title_ratio, author_ratios) ==
    [asin |-> asin, title |-> title, author_str |-> author_str, series |-> "",
     position |-> "", title_ratio |-> title_ratio, author_ratios |-> author_ratios,
     score |-> 0]

\* max(author_scores, default=0)
RECURSIVE MaxOr0(_)
MaxOr0(seq) ==
    IF seq = <<>> THEN 0
    ELSE LET m == MaxOr0(Tail(seq)) IN IF Head(seq) > m THEN Head(seq) ELSE m

\* round(total, 1) of a total given in thousandths, in tenths; a tie goes to
\* the even tenth
Round1(thousandths) ==
    LET q == thousandths \div 100
        r == thousandths % 100
    IN  IF r > 50 \/ (r = 50 /\ q % 2 = 1) THEN q + 1 ELSE q

\* max(10 - (idx * 2), 0)
position_score(idx) == IF 10 - idx * 2 > 0 THEN 10 - idx * 2 ELSE 0

\* the score of the result at index idx (from 0), in tenths
total(r, idx, has_author_hint) ==
    Round1(r.title_ratio * 60
           + (IF has_author_hint THEN MaxOr0(r.author_ratios) * 30 ELSE 0)
           + position_score(idx) * 1000)

\* scored.sort(key=score, reverse=True) misplaced: a later result goes before
\* the results of equal score
InsertDesc_unstable(sorted, x) ==
    LET k == Cardinality({i \in 1..Len(sorted) : sorted[i].score > x.score})
    IN  SubSeq(sorted, 1, k) \o <<x>> \o SubSeq(sorted, k + 1, Len(sorted))

\* list.sort(reverse=True) is stable: a later result goes after the results
\* whose score is at least its own
InsertDesc(sorted, x) ==
    LET k == Cardinality({i \in 1..Len(sorted) : sorted[i].score >= x.score})
    IN  SubSeq(sorted, 1, k) \o <<x>> \o SubSeq(sorted, k + 1, Len(sorted))

RECURSIVE SortDesc(_)
SortDesc(seq) ==
    IF seq = <<>> THEN <<>>
    ELSE InsertDesc(SortDesc(SubSeq(seq, 1, Len(seq) - 1)), seq[Len(seq)])

\* score_results(results, title_hint, author_hint)
score_results(results, has_author_hint) ==
    SortDesc([i \in 1..Len(results) |->
                 [results[i] EXCEPT !.score = total(results[i], i - 1, has_author_hint)]])

(***************************************************************************)
(* ai.py: the client, disambiguate and resolve                             *)
(***************************************************************************)

\* what a chat completion call does: it raises, or it returns this content
\* (the lines of the reply)
Reply(lines) == [raises |-> FALSE, lines |-> lines]
CallError == [raises |-> TRUE, lines |-> <<>>]

\* None, for a candidate
NoCandidate == Hit("", "", "", 0, <<>>)

\* get_client(base_url, api_key): whether a client is returned
get_client(base_url_set) == base_url_set

\* re.search(r"[0-5]", content): the index of the first such character, 0 for
\* no match
RECURSIVE SearchPick(_, _)
SearchPick(cs, i) ==
    IF i > Len(cs) THEN 0
    ELSE IF cs[i] \in {"0", "1", "2", "3", "4", "5"} THEN i
    ELSE SearchPick(cs, i + 1)

\* int() of a digit
DigitValue(c) == CHOOSE n \in 0..9 : Chars("0123456789")[n + 1] = c

\* content with its line breaks kept as spaces is searched as one text
RECURSIVE JoinLines(_)
JoinLines(lines) ==
    IF lines = <<>> THEN <<>>
    ELSE IF Len(lines) = 1 THEN Chars(lines[1])
    ELSE Chars(lines[1]) \o <<" ">> \o JoinLines(Tail(lines))

\* the number read from a content that is one digit from 0 to 5 and nothing else
pick_whole_reply(content, i) ==
    IF i = 1 /\ Len(content) = 1 THEN DigitValue(content[i]) ELSE 0

\* lines 241-243: the number read from the content, whose first character from
\* 0 to 5 is at index i (0 for none)
pick(content, i) == IF i = 0 THEN 0 ELSE DigitValue(content[i])

\* response.choices[0].message.content.strip()
Content(reply) == StripCs(JoinLines(reply.lines))

PickIn(content) == pick(content, SearchPick(content, 1))

\* lines 244-248: the candidate of that number
Candidate(candidates, n) ==
    IF n = 0 THEN NoCandidate
    ELSE IF n - 1 < Len(candidates) THEN candidates[n]
    ELSE NoCandidate

\* disambiguate(candidates, title_hint, author_hint, model, client)
disambiguate(candidates, client, reply) ==
    IF ~client \/ candidates = <<>> THEN NoCandidate
    ELSE IF reply.raises THEN NoCandidate
    ELSE Candidate(candidates, PickIn(Content(reply)))

\* what the AI does when asked to pick a candidate
PickReplies ==
    {CallError, Reply(<<"0">>), Reply(<<"1">>), Reply(<<"2">>), Reply(<<"5">>),
     Reply(<<"6">>), Reply(<<"10">>), Reply(<<"Result 2">>), Reply(<<"No match found">>)}

\* line.upper().startswith(label)
HasLabel(line, label) == MatchesAtCI(line, 1, label)

\* line.split(":", 1)[1].strip().strip('"').strip("'")
LabelValue(line) ==
    LET rest == StripCs(SubSeq(line, IndexOf(line, ":", 1) + 1, Len(line)))
        unquoted == RStripSet(LStripSet(rest, {"\""}), {"\""})
    IN  Join(RStripSet(LStripSet(unquoted, {"'"}), {"'"}))

Upper(s) == Join([i \in 1..Len(s) |->
                     IF SubSeq(s, i, i) \in LowerSet
                     THEN UpperLetters[CHOOSE k \in 1..26 : LowerLetters[k] = SubSeq(s, i, i)]
                     ELSE SubSeq(s, i, i)])

\* the value a line sets for its field, "" when the line sets nothing
FieldValue(line, field) ==
    LET val == LabelValue(line)
    IN  IF field \in {"author", "title"}
        THEN IF Upper(val) # "UNKNOWN" THEN val ELSE ""
        ELSE IF Upper(val) \notin {"NONE", "UNKNOWN", "N/A"} THEN val ELSE ""

\* the field a line speaks of, "" for a line that is skipped
FieldOf(line) ==
    IF HasLabel(line, "AUTHOR:") THEN "author"
    ELSE IF HasLabel(line, "TITLE:") THEN "title"
    ELSE IF HasLabel(line, "SERIES:") THEN "series"
    ELSE IF HasLabel(line, "POSITION:") THEN "position"
    ELSE ""

\* lines 259-276: the fields read from the reply; a later line overwrites
RECURSIVE ReadFields(_, _)
ReadFields(lines, result) ==
    IF lines = <<>> THEN result
    ELSE LET line == StripCs(Chars(Head(lines)))
             field == FieldOf(line)
         IN  IF field # "" /\ FieldValue(line, field) # ""
             THEN ReadFields(Tail(lines), [result EXCEPT ![field] = FieldValue(line, field)])
             ELSE ReadFields(Tail(lines), result)

\* re.sub(r"\s*\((?:The\s+)?Audio\s*Book\)", "", s, flags=re.IGNORECASE) at
\* position i: the end of a match starting at i, or 0
AudioBookEnd(cs, i) ==
    LET j == SkipSpace(cs, i)
        k == IF MatchesAtCI(cs, j + 1, "The") /\ SkipSpace(cs, j + 4) > j + 4
             THEN SkipSpace(cs, j + 4) ELSE j + 1
        b == SkipSpace(cs, k + 5)
    IN  IF /\ j <= Len(cs) /\ cs[j] = "("
           /\ MatchesAtCI(cs, k, "Audio")
           /\ MatchesAtCI(cs, b, "Book)")
        THEN b + 4 ELSE 0

\* re.sub(r"\s*\(Unabridged\)", "", s, flags=re.IGNORECASE) at position i
UnabridgedEnd(cs, i) ==
    LET j == SkipSpace(cs, i)
    IN  IF MatchesAtCI(cs, j, "(Unabridged)") THEN j + 11 ELSE 0

RECURSIVE StripAudioBook(_, _)
StripAudioBook(cs, i) ==
    IF i > Len(cs) THEN <<>>
    ELSE IF AudioBookEnd(cs, i) > 0 THEN StripAudioBook(cs, AudioBookEnd(cs, i) + 1)
    ELSE <<cs[i]>> \o StripAudioBook(cs, i + 1)

RECURSIVE StripUnabridged(_, _)
StripUnabridged(cs, i) ==
    IF i > Len(cs) THEN <<>>
    ELSE IF UnabridgedEnd(cs, i) > 0 THEN StripUnabridged(cs, UnabridgedEnd(cs, i) + 1)
    ELSE <<cs[i]>> \o StripUnabridged(cs, i + 1)

\* lines 284-297
CleanAITitle(title) ==
    Join(StripCs(StripUnabridged(StripAudioBook(Chars(title), 1), 1)))

\* lines 300-301: str(int(position)) of an all-digit position
NormalizePosition(position) ==
    IF position # "" /\ \A i \in 1..Len(position) : SubSeq(position, i, i) \in Digits
    THEN LET stripped == LStripSet(Chars(position), {"0"})
         IN  IF stripped = <<>> THEN "0" ELSE Join(stripped)
    ELSE position

\* _parse_resolve_response(content): NoAI stands for None
_parse_resolve_response(lines) ==
    LET result == ReadFields(lines, NoMetadata)
    IN  IF result.author = "" THEN NoAI
        ELSE [result EXCEPT !.title = CleanAITitle(result.title),
                            !.position = NormalizePosition(result.position)]

\* resolve(path_metadata, tag_metadata, audible_candidates, model, client, ...)
\* for a source whose file name is known
resolve(client, reply) ==
    IF ~client THEN NoAI
    ELSE IF reply.raises THEN NoAI
    ELSE _parse_resolve_response(reply.lines)

\* what the AI does when asked to resolve the metadata
ResolveReplies ==
    {CallError,
     Reply(<<"AUTHOR: Ann Leckie", "TITLE: Provenance (Unabridged)", "SERIES: NONE",
             "POSITION: NONE">>),
     Reply(<<"TITLE: Provenance", "SERIES: Imperial Radch", "POSITION: 01">>),
     Reply(<<"AUTHOR: Unknown", "TITLE: Provenance">>),
     Reply(<<"author: Various", "title: Unknown">>)}

(***************************************************************************)
(* ffprobe.py: the author read from the embedded tags                      *)
(***************************************************************************)

\* first index >= i at which the text w stands in cs (0 when none)
RECURSIVE FindAt(_, _, _)
FindAt(cs, w, i) ==
    IF i + Len(w) - 1 > Len(cs) THEN 0
    ELSE IF SubSeq(cs, i, i + Len(w) - 1) = Chars(w) THEN i
    ELSE FindAt(cs, w, i + 1)

_ROLE_WORDS ==
    {"introduction", "narrator", "narrated", "read", "performed", "foreword", "afterword",
     "translated", "edited", "abridged", "unabridged", "producer", "director"}

\* any(right_lower.startswith(w) for w in _ROLE_WORDS)
StartsWithRole(cs) == \E w \in _ROLE_WORDS : MatchesAtCI(cs, 1, w)

\* any(w in part_lower for w in _ROLE_WORDS)
HasRole(cs) == \E w \in _ROLE_WORDS : \E i \in 1..Len(cs) : MatchesAtCI(cs, i, w)

\* lines 170-175: "Author - introduction" keeps the author
DropDashRole(name) ==
    LET d == FindAt(name, " - ", 1)
    IN  IF d > 0 /\ StartsWithRole(StripCs(SubSeq(name, d + 3, Len(name))))
        THEN StripCs(SubSeq(name, 1, d - 1))
        ELSE name

\* lines 178-188: the end of the parts kept, for a name whose next ", " is at c
RECURSIVE KeptEnd(_, _)
KeptEnd(name, c) ==
    IF c = 0 THEN Len(name)
    ELSE LET n == FindAt(name, ", ", c + 2)
             part == SubSeq(name, c + 2, IF n = 0 THEN Len(name) ELSE n - 1)
         IN  IF HasRole(part) THEN c - 1 ELSE KeptEnd(name, n)

DropCommaRoles(name) == SubSeq(name, 1, KeptEnd(name, FindAt(name, ", ", 1)))

\* lines 190-192: the first of several artists
FirstArtist(name) ==
    LET s == FindAt(name, "; ", 1)
    IN  IF s > 0 THEN StripCs(SubSeq(name, 1, s - 1)) ELSE name

\* lines 194-197: a name of fewer than three characters is rejected
LongEnough(name) == IF Len(name) < 3 THEN "" ELSE Join(name)

\* _clean_author_tag(raw)
_clean_author_tag(raw) ==
    IF StripCs(Chars(raw)) = <<>> THEN ""
    ELSE IF Lower(Join(StripCs(Chars(raw))))
                \in {"unknown", "various", "various artists", "n/a", "none"}
         THEN ""
    ELSE LongEnough(FirstArtist(DropCommaRoles(DropDashRole(StripCs(Chars(raw))))))

\* the first cleaned tag that is not empty
FirstClean(album_artist, artist) == IF album_artist # "" THEN album_artist ELSE artist

\* extract_author_from_tags(tags)
extract_author_from_tags(tags) ==
    FirstClean(_clean_author_tag(tags.album_artist), _clean_author_tag(tags.artist))

(***************************************************************************)
(* stages/asin.py: the stage that resolves a book's metadata               *)
(***************************************************************************)

\* search results: a close title, two distant titles of equal score, and six
\* distant titles
CloseHits == <<Hit("B001", "Provenance", "A-M Leckie", 1000, <<>>)>>
DistantHits ==
    <<Hit("B002", "Provenance of Things", "Ann Leckie", 500, <<>>),
      Hit("B003", "Proven", "", 533, <<>>)>>
ManyHits ==
    <<Hit("B004", "One", "J Tolkien", 100, <<>>), Hit("B005", "Two", "C Tolkien", 100, <<>>),
      Hit("B006", "Three", "Ann Leckie", 100, <<>>), Hit("B007", "Four", "New Author", 100, <<>>),
      Hit("B008", "Five", "Ann Leckie", 100, <<>>), Hit("B009", "Six", "X Tolkien", 100, <<>>)>>

\* config.asin_search_threshold, in tenths
asin_search_threshold == 650

\* the most candidates shown to the AI
MaxOffered == 5

\* the queries of _search_audible that are sent
Queries(title, series, author, widen) ==
    SelectSeq(<<title>>
              \o (IF series # "" THEN <<series, series \o " " \o title>> ELSE <<>>)
              \o (IF widen /\ author # ""
                  THEN <<author \o " " \o title>>
                       \o (IF series # "" THEN <<author \o " " \o series>> ELSE <<>>)
                  ELSE <<>>),
              LAMBDA query : query # "")

\* the results kept so far and those of one more query, without the ASINs
\* already seen
RECURSIVE AddUnseen(_, _)
AddUnseen(all_results, hits) ==
    IF hits = <<>> THEN all_results
    ELSE IF \E i \in 1..Len(all_results) : all_results[i].asin = Head(hits).asin
         THEN AddUnseen(all_results, Tail(hits))
         ELSE AddUnseen(Append(all_results, Head(hits)), Tail(hits))

\* the search loop from query i on; the catalog fails on the queries numbered
\* in catalog.fails and answers every other query with catalog.hits
RECURSIVE SearchFrom(_, _, _, _)
SearchFrom(queries, i, catalog, all_results) ==
    IF i > Len(queries) THEN all_results
    ELSE IF i \in catalog.fails THEN SearchFrom(queries, i + 1, catalog, all_results)
    ELSE SearchFrom(queries, i + 1, catalog, AddUnseen(all_results, catalog.hits))

\* _search_audible(title, series, config, author, widen)
_search_audible(title, series, author, widen, catalog) ==
    SearchFrom(Queries(title, series, author, widen), 1, catalog, <<>>)

\* lines 78-86: the metadata parsed from the path
AsinParse(book) ==
    IF book.is_dir
    THEN parse_path(Append(book.source,
                           IF book.tag_file # "" THEN book.tag_file
                           ELSE book.source[Len(book.source)]),
                    [given |-> TRUE,
                     audio |-> IF book.tag_file # "" THEN <<Stem(book.tag_file)>> ELSE <<>>])
    ELSE parse_path(book.source, None)

\* lines 88-106 with no failure of the probe caught
ProbeTags_catch_none(book, ev) ==
    IF book.tag_file = "" THEN [raised |-> FALSE, author |-> "", title |-> ""]
    ELSE IF ev.probe # "ok" THEN [raised |-> TRUE, author |-> "", title |-> ""]
    ELSE [raised |-> FALSE, author |-> extract_author_from_tags(ev.tags), title |-> ev.tags.title]

\* lines 88-106: the evidence of the embedded tags; FileNotFoundError (no
\* ffprobe program) is raised again, any other failure leaves no evidence
ProbeTags(book, ev) ==
    IF book.tag_file = "" THEN [raised |-> FALSE, author |-> "", title |-> ""]
    ELSE IF ev.probe = "no_ffprobe" THEN [raised |-> TRUE, author |-> "", title |-> ""]
    ELSE IF ev.probe = "error" THEN [raised |-> FALSE, author |-> "", title |-> ""]
    ELSE [raised |-> FALSE, author |-> extract_author_from_tags(ev.tags), title |-> ev.tags.title]

\* lines 108-112: source_stem, and the tag title replacing a path title that is
\* just that stem
source_stem(book) ==
    Stem(IF book.tag_file # "" THEN book.tag_file ELSE book.source[Len(book.source)])

AsinTagTitle(metadata, stem, tags) ==
    IF Len(tags.title) > 3 /\ metadata.title = stem
    THEN [metadata EXCEPT !.title = tags.title]
    ELSE metadata

\* seq[:n]
Take(seq, n) == SubSeq(seq, 1, IF Len(seq) < n THEN Len(seq) ELSE n)

\* lines 145-155: the candidates the AI is asked to pick from, none when it is
\* not asked
Offered(scored, ev) ==
    IF scored = <<>> THEN <<>>
    ELSE IF scored[1].score < asin_search_threshold /\ ev.base_url
         THEN Take(scored, MaxOffered)
    ELSE <<>>

\* lines 123-167: the catalog candidate that is accepted, NoCandidate for None
AudibleResult(scored, offered, ev) ==
    IF scored = <<>> THEN NoCandidate
    ELSE IF scored[1].score >= asin_search_threshold THEN scored[1]
    ELSE disambiguate(offered, get_client(ev.base_url), ev.pick_reply)

\* lines 192-197 and 200-207 taking the tags before the catalog
BestSource_tags_first(metadata, audible_result, tag_author, fill) ==
    IF tag_author # "" THEN [metadata EXCEPT !.author = tag_author]
    ELSE IF audible_result.author_str # ""
         THEN [metadata EXCEPT !.author = audible_result.author_str]
    ELSE metadata

\* lines 192-197 and 200-207: the best source that is not the AI; with fill,
\* the title, series and position of the catalog fill empty fields
BestSource(metadata, audible_result, tag_author, fill) ==
    IF audible_result # NoCandidate /\ audible_result.author_str # ""
    THEN [key \in DOMAIN metadata |->
             IF key = "author" THEN audible_result.author_str
             ELSE IF fill /\ audible_result[key] # "" /\ metadata[key] = ""
                  THEN audible_result[key]
             ELSE metadata[key]]
    ELSE IF tag_author # "" THEN [metadata EXCEPT !.author = tag_author]
    ELSE metadata

\* lines 187-197: the fields the AI resolved replace those of the path; with no
\* answer the best other source is taken
ApplyAI(metadata, ai_metadata, audible_result, tag_author) ==
    IF ai_metadata # NoAI
    THEN [key \in DOMAIN metadata |->
             IF ai_metadata[key] # "" THEN ai_metadata[key] ELSE metadata[key]]
    ELSE BestSource(metadata, audible_result, tag_author, FALSE)

\* lines 169-207: the metadata after resolution
AsinResolve(metadata, tags, audible_result, ev, ai_all) ==
    IF ai_all \/ needs_resolution(metadata.author, tags.author, audible_result.author_str)
    THEN ApplyAI(metadata, resolve(get_client(ev.base_url), ev.resolve_reply),
                 audible_result, tags.author)
    ELSE BestSource(metadata, audible_result, tags.author, TRUE)

\* books handed to the stage: a folder below an author folder, a single file,
\* a folder whose file has a generic name, a folder without an audio file
AsinBook(hash, source, is_dir, tag_file) ==
    [hash |-> hash, source |-> source, is_dir |-> is_dir, tag_file |-> tag_file]

AsinBooks ==
    {AsinBook("a1", <<"incoming", "Ann Leckie", "Provenance">>, TRUE, "Provenance.m4b"),
     AsinBook("a2", <<"incoming", "Raven Tower.m4b">>, FALSE, "Raven Tower.m4b"),
     AsinBook("a3", <<"incoming", "Unknown", "audiobook">>, TRUE, "audiobook.m4b"),
     AsinBook("a4", <<"incoming", "Imperial Radch 1 - Ancillary Justice">>, TRUE, "")}

\* lines 77-207: what the stage works out before it touches the index, one
\* step after the other
AsinResolved(ev, ai_all, tags, path, metadata, offered, audible_result) ==
    [raised |-> tags.raised, path |-> path, tags |-> tags, offered |-> offered,
     audible_result |-> audible_result,
     chosen |-> IF tags.raised THEN path
                ELSE AsinResolve(metadata, tags, audible_result, ev, ai_all)]

AsinOffered(ev, ai_all, tags, path, metadata, scored, offered) ==
    AsinResolved(ev, ai_all, tags, path, metadata, offered,
                 AudibleResult(scored, offered, ev))

AsinScored(ev, ai_all, tags, path, metadata, scored) ==
    AsinOffered(ev, ai_all, tags, path, metadata, scored, Offered(scored, ev))

AsinTitled(ev, ai_all, tags, path, metadata) ==
    AsinScored(ev, ai_all, tags, path, metadata,
               score_results(_search_audible(metadata.title, metadata.series,
                                             metadata.author, ev.base_url, ev.catalog),
                             FALSE))

AsinParsed(book, ev, ai_all, tags, path) ==
    AsinTitled(ev, ai_all, tags, path, AsinTagTitle(path, source_stem(book), tags))

AsinEvidence(book, ev, ai_all) ==
    AsinParsed(book, ev, ai_all, ProbeTags(book, ev), AsinParse(book))

\* what the embedded tags hold
NoTags == [album_artist |-> "", artist |-> "", title |-> ""]

AsinTags ==
    {NoTags,
     [album_artist |-> "Unknown", artist |-> "AM Leckie - read by the author",
      title |-> "Provenance"],
     [album_artist |-> "", artist |-> "Unknown - narrator", title |-> ""]}

\* what the catalog does: every query fails, nothing is found, the first query
\* fails, or every query is answered
Catalogs ==
    {[fails |-> 1..5, hits |-> CloseHits], [fails |-> {}, hits |-> <<>>],
     [fails |-> {1}, hits |-> CloseHits], [fails |-> {}, hits |-> CloseHits],
     [fails |-> {}, hits |-> DistantHits], [fails |-> {}, hits |-> ManyHits]}

\* the evidence sources of one run; without a base URL no call is made
AsinInputs ==
    {[probe |-> probe, tags |-> tags,
      catalog |-> catalog, base_url |-> base_url, pick_reply |-> pick_reply,
      resolve_reply |-> resolve_reply] :
        probe \in {"ok", "error", "no_ffprobe"}, tags \in AsinTags, catalog \in Catalogs,
        base_url \in BOOLEAN, pick_reply \in PickReplies, resolve_reply \in ResolveReplies}

NoEvidence ==
    [probe |-> "ok", tags |-> NoTags,
     catalog |-> [fails |-> {}, hits |-> <<>>], base_url |-> FALSE,
     pick_reply |-> CallError, resolve_reply |-> CallError]

\* the inputs that differ in what the stage sees: tags are read when the probe
\* works, the AI is called when there is a base URL, and asked to pick when the
\* catalog has distant titles only
UsedInputs ==
    {ev \in AsinInputs :
        /\ ev.probe # "ok" => ev.tags = NoTags
        /\ ~ev.base_url => ev.pick_reply = CallError /\ ev.resolve_reply = CallError
        /\ ev.catalog.hits \notin {DistantHits, ManyHits} => ev.pick_reply = CallError
        /\ ev.catalog.hits = ManyHits =>
               ev.pick_reply \in {CallError, Reply(<<"5">>), Reply(<<"6">>)}}

\* the record of one run of the stage
AsinCall(op, hash, ev, e, metadata) ==
    [op |-> op, arg |-> hash, ev |-> ev, raised |-> e.raised, path |-> e.path,
     tags |-> e.tags, offered |-> e.offered, audible_result |-> e.audible_result,
     chosen |-> e.chosen, metadata |-> metadata]

NoAsinCall ==
    AsinCall("none", "", NoEvidence,
             [raised |-> FALSE, path |-> NoMetadata,
              tags |-> [raised |-> FALSE, author |-> "", title |-> ""],
              offered |-> <<>>, audible_result |-> NoCandidate, chosen |-> NoMetadata],
             NoMetadata)

\* lines 57-262 after the evidence is gathered: the author is canonicalized
\* against the index, the metadata stored and the stage completed; a raised
\* FileNotFoundError leaves the stage running
AsinEnd(book, ev, e, m) ==
    LET canonical == ~e.raised /\ e.chosen.author # ""
        saves == canonical /\ m.save
    IN  /\ author_aliases' =
              IF saves THEN save_alias_map(author_aliases, e.chosen.author, m.ret)
              ELSE author_aliases
        /\ alias_file' =
              IF saves
              THEN save_alias_file(alias_file, author_aliases, e.chosen.author, m.ret,
                                   alias_writable)
              ELSE alias_file
        /\ saved_aliases' =
              IF saves /\ e.chosen.author # m.ret
              THEN MapSet(saved_aliases, e.chosen.author, m.ret)
              ELSE saved_aliases
        /\ stage_status' =
              MapSet(stage_status, book.hash,
                     IF e.raised THEN "running" ELSE "completed")
        /\ last' = AsinCall("asin", book.hash, ev, e,
                            IF canonical THEN [e.chosen EXCEPT !.author = m.ret]
                            ELSE e.chosen)
        /\ calls' = calls + 1
        /\ UNCHANGED <<folders, files, processed, authors_by_surname, alias_writable,
                       config, disk_dirs, disk_files, registered, marked>>

AsinStep(book, ev, e) ==
    AsinEnd(book, ev, e, match_author(author_aliases, authors_by_surname, e.chosen.author))

\* books resolved in one batch
MaxAsinRuns == 1

\* stages.asin.run(source_path, book_hash, config, manifest, index=index) for a
\* book of the batch; last.ev is what the evidence sources answer in this batch
AsinRun(book) ==
    /\ calls < MaxAsinRuns
    /\ book.hash \notin DOMAIN stage_status
    /\ AsinStep(book, last.ev, AsinEvidence(book, last.ev, config.ai_all))

\* a batch: the index is built on the library, ai_all is the flag of the run,
\* and the tags, the catalog and the AI answer every book of it alike
InitAsin ==
    /\ InitIndex(AuthorLibrary, NoAliasFile, TRUE)
    /\ \E ai_all \in BOOLEAN, ev \in UsedInputs :
          /\ config = [NoConfig EXCEPT !.ai_all = ai_all, !.base_url = ev.base_url]
          /\ last = [NoAsinCall EXCEPT !.ev = ev]

NextAsin == \E book \in AsinBooks : AsinRun(book)

SpecAsin == InitAsin /\ [][NextAsin]_vars

(***************************************************************************)
(* Claims on the resolving stage                                           *)
(***************************************************************************)

AsinBookOf(hash) == CHOOSE book \in AsinBooks : book.hash = hash

IsAsinRun == last.op = "asin"

\* the run had no evidence but the path: no tags were read, every catalog query
\* failed and the AI call failed
OnlyPathLeft ==
    /\ last.ev.probe = "error" \/ AsinBookOf(last.arg).tag_file = ""
    /\ last.ev.catalog.fails = 1..5
    /\ last.ev.resolve_reply = CallError

AIAsked ==
    config.ai_all
        \/ needs_resolution(last.path.author, last.tags.author, last.audible_result.author_str)

AIGaveNothing == resolve(get_client(last.ev.base_url), last.ev.resolve_reply) = NoAI

PickAsked == IsAsinRun /\ ~last.raised /\ last.offered # <<>> /\ ~last.ev.pick_reply.raises

\* the reply as the AI gave it, without surrounding blanks
PickContent == Content(last.ev.pick_reply)

\* a reply that is a decimal number, and that number
IsNumber(cs) == cs # <<>> /\ \A i \in 1..Len(cs) : cs[i] \in Digits

RECURSIVE NumberOf(_)
NumberOf(cs) ==
    IF cs = <<>> THEN 0
    ELSE 10 * NumberOf(SubSeq(cs, 1, Len(cs) - 1)) + DigitValue(cs[Len(cs)])

\* the places of a reply that hold a character from 0 to 5
ChoicePlaces(cs) == {i \in 1..Len(cs) : cs[i] \in {"0", "1", "2", "3", "4", "5"}}

FirstChoice(cs) ==
    LET first == CHOOSE i \in ChoicePlaces(cs) : \A j \in ChoicePlaces(cs) : i <= j
    IN  DigitValue(cs[first])

\* C13 as stated: a reply that is non-numeric, or a number other than 0 outside
\* 1..number of offered candidates, gives no candidate.
C13_BadReplyNoCandidate ==
    (PickAsked /\ (~IsNumber(PickContent)
                      \/ NumberOf(PickContent) \notin 0..Len(last.offered))) =>
        last.audible_result = NoCandidate

\* C13, amended: at most 5 candidates are offered, and disambiguate reads the
\* first character from 0 to 5 anywhere in the reply. It returns no candidate
\* when the call fails, the reply has no such character, or that digit is 0 or
\* exceeds the number of offered candidates; otherwise it returns the candidate
\* of that digit, also for a reply such as "10" or "Result 2".
C13_FirstDigitPicks ==
    (IsAsinRun /\ ~last.raised /\ last.offered # <<>>) =>
        /\ Len(last.offered) <= 5
        /\ last.audible_result =
              IF last.ev.pick_reply.raises \/ ChoicePlaces(PickContent) = {}
              THEN NoCandidate
              ELSE IF FirstChoice(PickContent) \in 1..Len(last.offered)
                   THEN last.offered[FirstChoice(PickContent)]
              ELSE NoCandidate

\* C13 witness: five of six candidates were offered, the AI replied with a
\* number beyond them, and no candidate was accepted.
C13_Witness ==
    /\ PickAsked
    /\ Len(last.offered) = 5
    /\ Len(last.ev.catalog.hits) = 6
    /\ IsNumber(PickContent) /\ NumberOf(PickContent) = 6
    /\ last.audible_result = NoCandidate

(***************************************************************************)
(* ai.py: needs_resolution on the authors of the three sources             *)
(***************************************************************************)

\* what a step on a pure function leaves alone
IndexUnchanged ==
    UNCHANGED <<folders, files, processed, authors_by_surname, author_aliases, alias_file,
                alias_writable, config, disk_dirs, disk_files, stage_status, registered,
                marked, saved_aliases>>

\* the path, the tags and the catalog each name an author
InitNeeds ==
    /\ InitIndex(EmptyLibrary, NoAliasFile, TRUE)
    /\ config = NoConfig
    /\ \E path_author \in AuthorSpellings, tag_author \in AuthorSpellings,
          audible_author \in AuthorSpellings :
          last = [op |-> "sources", path_author |-> path_author, tag_author |-> tag_author,
                  audible_author |-> audible_author, ret |-> FALSE]

\* needs_resolution(path_metadata, tag_metadata, audible_result)
NeedsResolution ==
    /\ last.op = "sources"
    /\ last' = [last EXCEPT !.op = "needs_resolution",
                            !.ret = needs_resolution(last.path_author, last.tag_author,
                                                     last.audible_author)]
    /\ calls' = calls + 1
    /\ IndexUnchanged

NextNeeds == NeedsResolution

SpecNeeds == InitNeeds /\ [][NextNeeds]_vars

\* a name without its surrounding blanks
Trimmed(s) ==
    LET inked == {i \in 1..Len(s) : SubSeq(s, i, i) # " "}
    IN  IF inked = {} THEN ""
        ELSE SubSeq(s, CHOOSE i \in inked : \A j \in inked : i <= j,
                       CHOOSE i \in inked : \A j \in inked : j <= i)

\* two names are the same author when they differ only in case and in
\* surrounding blanks
SameAuthor(a, b) == Lower(Trimmed(a)) = Lower(Trimmed(b))

\* an empty name or a placeholder is no evidence
NoAuthor(s) == \E p \in {"", "Unknown", "_unsorted", "Various"} : SameAuthor(s, p)

SourcesOf(call) == {call.path_author, call.tag_author, call.audible_author}

Placeholders == {"Unknown", "Various", "_unsorted"}

HoldsPlaceholder(metadata) == \E key \in DOMAIN metadata : metadata[key] \in Placeholders

\* C15: no field of the metadata produced by the path parser, the tag reader or
\* the resolver is one of the placeholders "Unknown", "Various", "_unsorted".
C15_NoPlaceholder ==
    IsAsinRun =>
        /\ ~HoldsPlaceholder(last.path)
        /\ last.tags.author \notin Placeholders
        /\ ~HoldsPlaceholder(last.chosen)
        /\ ~HoldsPlaceholder(last.metadata)

\* C15 failing state: the path parser gave the title "Unknown", nothing replaced
\* it, and the stage completed with it.
C15_PlaceholderKept ==
    /\ IsAsinRun /\ ~last.raised
    /\ last.path.title = "Unknown"
    /\ last.metadata.title = "Unknown"
    /\ stage_status[last.arg] = "completed"

(***************************************************************************)
(* api/search.py: score_results on lists of search results                 *)
(***************************************************************************)

\* the longest result list scored
MaxResults == 3

\* what the fuzzy ratios of a result can be, in tenths of a point
TitleRatios == {0, 500, 533, 567}
AuthorRatios == {<<>>, <<1000, 400>>}

AsinOf(i) == <<"B1", "B2", "B3", "B4", "B5">>[i]

\* the result lists of n results with distinct ASINs
ResultLists(n) ==
    {[i \in 1..n |-> Hit(AsinOf(i), "title", "author", ratios[i][1], ratios[i][2])] :
        ratios \in [1..n -> TitleRatios \X AuthorRatios]}

\* a caller holds the results of a search
InitScore ==
    /\ InitIndex(EmptyLibrary, NoAliasFile, TRUE)
    /\ config = NoConfig
    /\ \E n \in 0..MaxResults, has_author_hint \in BOOLEAN :
          \E results \in ResultLists(n) :
             last = [op |-> "results", results |-> results,
                     has_author_hint |-> has_author_hint, ret |-> <<>>]

\* score_results(results, title_hint, author_hint)
ScoreResults ==
    /\ last.op = "results"
    /\ last' = [last EXCEPT !.op = "score_results",
                            !.ret = score_results(last.results, last.has_author_hint)]
    /\ calls' = calls + 1
    /\ IndexUnchanged

NextScore == ScoreResults

SpecScore == InitScore /\ [][NextScore]_vars

\* the place a returned candidate had in the input
InputPlace(candidate) ==
    CHOOSE k \in 1..Len(last.results) : last.results[k].asin = candidate.asin

\* C16: score_results returns every input candidate exactly once, sorted by
\* descending score, and candidates of equal score keep their input order.
C16_SortedStable ==
    last.op = "score_results" =>
        /\ Len(last.ret) = Len(last.results)
        /\ \A k \in 1..Len(last.results) :
              Cardinality({i \in 1..Len(last.ret) :
                              [last.ret[i] EXCEPT !.score = 0] = last.results[k]}) = 1
        /\ \A i, j \in 1..Len(last.ret) :
              i < j =>
                 /\ last.ret[i].score >= last.ret[j].score
                 /\ last.ret[i].score = last.ret[j].score =>
                        InputPlace(last.ret[i]) < InputPlace(last.ret[j])

\* C16 witness: the first result was moved behind two later ones, which have
\* the same score and are returned in their input order.
C16_Witness ==
    /\ last.op = "score_results"
    /\ Len(last.ret) = 3
    /\ last.ret[3].asin = last.results[1].asin
    /\ last.ret[1].score = last.ret[2].score
    /\ last.ret[1].title_ratio # last.ret[2].title_ratio
    /\ last.ret[2].score > last.ret[3].score
    /\ InputPlace(last.ret[1]) < InputPlace(last.ret[2])

(***************************************************************************)
(* More claims about build_plex_path (checked under SpecBuild)             *)
(***************************************************************************)

NearWords == <<"a", "b", "c", "d", "e", "f", "g">>

RECURSIVE JoinWords(_)
JoinWords(words) ==
    IF words = <<>> THEN ""
    ELSE IF Len(words) = 1 THEN words[1]
    ELSE words[1] \o " " \o JoinWords(Tail(words))

\* normalised names: every selection of the words, and names with a repeated
\* word, another word order and an author prefix
NearNames ==
    {JoinWords(SelectSeq(NearWords, LAMBDA w : w \in chosen)) :
        chosen \in SUBSET Range(NearWords)}
    \cup {"the", "the the", "raven tower the", "the raven tower",
          "ann leckie the raven tower", "b a", "a a b"}

\* a caller holds two normalised names
InitNear ==
    /\ InitIndex(EmptyLibrary, NoAliasFile, TRUE)
    /\ config = NoConfig
    /\ \E a \in NearNames, b \in NearNames :
          last = [op |-> "names", a |-> a, b |-> b, ret |-> FALSE, swapped |-> FALSE]

\* _is_near_match(a, b) and _is_near_match(b, a)
IsNearMatch ==
    /\ last.op = "names"
    /\ last' = [last EXCEPT !.op = "_is_near_match",
                            !.ret = _is_near_match(last.a, last.b),
                            !.swapped = _is_near_match(last.b, last.a)]
    /\ calls' = calls + 1
    /\ IndexUnchanged

NextNear == IsNearMatch

SpecNear == InitNear /\ [][NextNear]_vars

\* C18: near-match is symmetric: _is_near_match(a, b) equals
\* _is_near_match(b, a) for all normalised names a and b.
C18_NearMatchSymmetric ==
    last.op = "_is_near_match" => last.ret = last.swapped

\* C18 witness: two names of which neither holds all words of the other are
\* near-matches by their overlap, in both directions.
C18_Witness ==
    /\ last.op = "_is_near_match"
    /\ ~(Tokens(last.a) \subseteq Tokens(last.b))
    /\ ~(Tokens(last.b) \subseteq Tokens(last.a))
    /\ Cardinality(Tokens(last.a)) = 6
    /\ last.ret /\ last.swapped

(***************************************************************************)
(* ops/library_diff.py: compare_libraries                                  *)
(*                                                                         *)
(* A BookEntry is what _extract_books found for one .m4b file: the author  *)
(* and title with their normalised forms, the path, and for a file of a    *)
(* multi-part book the key of its group.  chapter says that the title is a *)
(* chapter or disc-track name, and dir_title / dir_norm_title are what the *)
(* name of the file's directory gives as the title then.                   *)
(***************************************************************************)

\* Minimum fuzzy match ratio to consider titles equivalent
FUZZY_THRESHOLD == 85

BookEntry(author, norm_author, title, norm_title, path, part_group, chapter, dir_title, dir_norm_title) ==
    [author |-> author, norm_author |-> norm_author, title |-> title,
     norm_title |-> norm_title, path |-> path, is_multipart |-> part_group # "",
     part_group |-> part_group, chapter |-> chapter, dir_title |-> dir_title,
     dir_norm_title |-> dir_norm_title]

IsGrouped(entry) == entry.is_multipart /\ entry.part_group # ""

\* the keys of the groups, in the order in which the groups are first seen
RECURSIVE GroupKeys(_, _)
GroupKeys(entries, keys) ==
    IF entries = <<>> THEN keys
    ELSE IF IsGrouped(Head(entries))
            /\ \A i \in 1..Len(keys) : keys[i] # Head(entries).part_group
         THEN GroupKeys(Tail(entries), Append(keys, Head(entries).part_group))
    ELSE GroupKeys(Tail(entries), keys)

\* group_entries[0]
Representative(entries, key) ==
    entries[CHOOSE i \in 1..Len(entries) :
               /\ IsGrouped(entries[i]) /\ entries[i].part_group = key
               /\ \A j \in 1..(i - 1) :
                     ~(IsGrouped(entries[j]) /\ entries[j].part_group = key)]

\* lines 188-211: the one entry that stands for a group
Collapsed(representative, key) ==
    [representative EXCEPT
        !.title = IF representative.chapter THEN representative.dir_title ELSE @,
        !.norm_title = IF representative.chapter THEN representative.dir_norm_title ELSE @,
        !.is_multipart = TRUE,
        !.part_group = key]

\* _collapse_multipart(entries)
_collapse_multipart(entries) ==
    SelectSeq(entries, LAMBDA entry : ~IsGrouped(entry))
    \o [k \in 1..Len(GroupKeys(entries, <<>>)) |->
           Collapsed(Representative(entries, GroupKeys(entries, <<>>)[k]),
                     GroupKeys(entries, <<>>)[k])]

\* _deduplicate_source from entry i on, with the titles seen so far
RECURSIVE DedupFrom(_, _, _)
DedupFrom(entries, i, seen) ==
    IF i > Len(entries) THEN <<>>
    ELSE IF entries[i].norm_title # "" /\ entries[i].norm_title \in seen
         THEN DedupFrom(entries, i + 1, seen)
    ELSE <<entries[i]>>
         \o DedupFrom(entries, i + 1,
                      IF entries[i].norm_title # "" THEN seen \cup {entries[i].norm_title}
                      ELSE seen)

\* _deduplicate_source(entries)
_deduplicate_source(entries) == DedupFrom(entries, 1, {})

\* _build_target_index(entries): normalised author -> set of normalised titles
_build_target_index(entries) ==
    [norm_author \in {entries[i].norm_author : i \in 1..Len(entries)} |->
        {entries[i].norm_title : i \in {j \in 1..Len(entries) :
                                           entries[j].norm_author = norm_author}}]

\* the titles of every author of the index
AllTargetTitles(target_index) == UNION {target_index[a] : a \in DOMAIN target_index}

\* fuzz.token_set_ratio(a, b) of rapidfuzz for the titles used here, rounded
\* down: 0 for a title without words, 100 when the words of one title are
\* among those of the other, and no other pair of these titles reaches 50
TokenSetRatio(a, b) ==
    IF a = "" \/ b = "" THEN 0
    ELSE IF a = b THEN 100
    ELSE IF {a, b} = {"provenance", "provenence"} THEN 90
    ELSE IF {a, b} = {"ancillary mercy", "ancillary sword"} THEN 75
    ELSE IF {a, b} = {"the raven tower", "raven tower"} THEN 100
    ELSE 40

\* _find_match trying the book's own author only
_find_match_same_author(book, target_index, all_target_titles) ==
    IF book.norm_title = "" THEN FALSE
    ELSE /\ book.norm_author \in DOMAIN target_index
         /\ \E target_title \in target_index[book.norm_author] :
               TokenSetRatio(book.norm_title, target_title) >= FUZZY_THRESHOLD

\* _find_match(book, target_index, all_target_titles)
_find_match(book, target_index, all_target_titles) ==
    IF book.norm_title = "" THEN FALSE
    ELSE IF /\ book.norm_author \in DOMAIN target_index
            /\ book.norm_title \in target_index[book.norm_author] THEN TRUE
    ELSE IF book.norm_title \in all_target_titles THEN TRUE
    ELSE IF /\ book.norm_author \in DOMAIN target_index
            /\ \E target_title \in target_index[book.norm_author] :
                  TokenSetRatio(book.norm_title, target_title) >= FUZZY_THRESHOLD
         THEN TRUE
    ELSE \E target_title \in all_target_titles :
            TokenSetRatio(book.norm_title, target_title) >= FUZZY_THRESHOLD

\* lines 323-331: the books of the source that match, or that do not
Sorted(source_entries, target_index, wanted) ==
    SelectSeq(source_entries,
              LAMBDA book : _find_match(book, target_index,
                                        AllTargetTitles(target_index)) = wanted)

\* compare_libraries once both libraries are scanned, collapsed and de-duplicated
Compared(source_entries, target_entries) ==
    [source_entries |-> source_entries,
     target_entries |-> target_entries,
     matched |-> Sorted(source_entries, _build_target_index(target_entries), TRUE),
     missing |-> Sorted(source_entries, _build_target_index(target_entries), FALSE),
     source_count |-> Len(source_entries),
     target_count |-> Len(target_entries)]

\* compare_libraries(source, target) on the entries _extract_books found
compare_libraries(source, target) ==
    Compared(_deduplicate_source(_collapse_multipart(source)),
             _collapse_multipart(target))

\* the most files scanned in the source and in the target
MaxSource == 3
MaxTarget == 2

\* a file that is not part of a group
BookFile(author, norm_author, title, norm_title, path) ==
    BookEntry(author, norm_author, title, norm_title, path, "", FALSE, "", "")

\* the files of the source in the order of the scan: two files named "Part N"
\* only, a book, a book that the target has, the chapters of a book, the same
\* book under another author, and a misspelled title
SourceFiles ==
    <<BookFile("Ann Leckie", "ann leckie", "Part 1", "",
               "Ann Leckie/Ancillary Justice/Part 1.m4b"),
      BookFile("Ann Leckie", "ann leckie", "Part 2", "",
               "Ann Leckie/Ancillary Justice/Part 2.m4b"),
      BookFile("Ann Leckie", "ann leckie", "Ancillary Mercy", "ancillary mercy",
               "Ann Leckie/Ancillary Mercy/Ancillary Mercy.m4b"),
      BookFile("Ann Leckie", "ann leckie", "Provenance", "provenance",
               "Ann Leckie/Provenance/Provenance.m4b"),
      BookEntry("Ann Leckie", "ann leckie", "01 - Chapter One", "chapter one",
                "Ann Leckie/The Raven Tower/01 - Chapter One.m4b",
                "Ann Leckie/The Raven Tower", TRUE, "The Raven Tower", "the raven tower"),
      BookEntry("Ann Leckie", "ann leckie", "02 - Chapter Two", "chapter two",
                "Ann Leckie/The Raven Tower/02 - Chapter Two.m4b",
                "Ann Leckie/The Raven Tower", TRUE, "The Raven Tower", "the raven tower"),
      BookFile("Misc", "misc", "Provenance", "provenance", "Misc/Provenance/Provenance.m4b"),
      BookFile("Misc", "misc", "Provenence", "provenence",
               "Misc/Provenence/Provenence.m4b")>>

\* the files of the target in the order of the scan
TargetFiles ==
    <<BookFile("Ann Leckie", "ann leckie", "Part 1", "",
               "Ann Leckie/Ancillary Justice/Part 1.m4b"),
      BookFile("Ann Leckie", "ann leckie", "Ancillary Sword", "ancillary sword",
               "Ann Leckie/Ancillary Sword/Ancillary Sword.m4b"),
      BookFile("Ann Leckie", "ann leckie", "Provenance", "provenance",
               "Ann Leckie/Provenance/Provenance.m4b"),
      BookFile("Misc", "misc", "Provenance", "provenance", "Misc/Provenance/Provenance.m4b"),
      BookFile("ann leckie", "ann leckie", "Raven Tower", "raven tower",
               "ann leckie/Raven Tower/Raven Tower.m4b")>>

\* the files at the chosen places, in the order of the scan
RECURSIVE FilesAt(_, _, _)
FilesAt(scan, i, places) ==
    IF i > Len(scan) THEN <<>>
    ELSE (IF i \in places THEN <<scan[i]>> ELSE <<>>) \o FilesAt(scan, i + 1, places)

\* the libraries that hold up to n of the files
Libraries(scan, n) ==
    {FilesAt(scan, 1, places) :
        places \in {p \in SUBSET (1..Len(scan)) : Cardinality(p) <= n}}

\* a caller is about to compare two libraries
InitDiff ==
    /\ InitIndex(EmptyLibrary, NoAliasFile, TRUE)
    /\ config = NoConfig
    /\ \E source \in Libraries(SourceFiles, MaxSource),
          target \in Libraries(TargetFiles, MaxTarget) :
          last = [op |-> "libraries", source |-> source, target |-> target,
                  diff |-> Compared(<<>>, <<>>)]

\* compare_libraries(source, target)
CompareLibraries ==
    /\ last.op = "libraries"
    /\ last' = [last EXCEPT !.op = "compare_libraries",
                            !.diff = compare_libraries(last.source, last.target)]
    /\ calls' = calls + 1
    /\ IndexUnchanged

NextDiff == CompareLibraries

SpecDiff == InitDiff /\ [][NextDiff]_vars

(***************************************************************************)
(* Claims about compare_libraries (checked under SpecDiff)                 *)
(***************************************************************************)

\* the entries of a list as a set
EntriesOf(list) == {list[i] : i \in 1..Len(list)}

\* how often an entry stands in a list
TimesIn(entry, list) == Cardinality({i \in 1..Len(list) : list[i] = entry})

\* the target entries of the book's own author, or of every author
TargetsFor(book, targets, same_author) ==
    {t \in EntriesOf(targets) : same_author => t.norm_author = book.norm_author}

\* a match step on the entries of the target: the title is equal, or the
\* token-set ratio of the titles is at least 85
ExactStep(book, targets, same_author) ==
    \E t \in TargetsFor(book, targets, same_author) : t.norm_title = book.norm_title

FuzzyStep(book, targets, same_author) ==
    \E t \in TargetsFor(book, targets, same_author) :
        TokenSetRatio(book.norm_title, t.norm_title) >= FUZZY_THRESHOLD

\* one of the four match steps succeeds
SomeStep(book, targets) ==
    \/ ExactStep(book, targets, TRUE)
    \/ ExactStep(book, targets, FALSE)
    \/ FuzzyStep(book, targets, TRUE)
    \/ FuzzyStep(book, targets, FALSE)

\* every remaining source entry is in exactly one of matched and missing
InOneList(diff) ==
    /\ Len(diff.matched) + Len(diff.missing) = diff.source_count
    /\ \A i \in 1..Len(diff.source_entries) :
          TimesIn(diff.source_entries[i], diff.matched)
          + TimesIn(diff.source_entries[i], diff.missing) = 1

\* C19 as stated: every remaining source entry is in exactly one of matched
\* and missing, and it is missing exactly when none of the four match steps
\* succeeds against the target.
C19_MissingIffNoStep ==
    last.op = "compare_libraries" =>
        /\ InOneList(last.diff)
        /\ \A book \in EntriesOf(last.diff.source_entries) :
              book \in EntriesOf(last.diff.missing)
              <=> ~SomeStep(book, last.diff.target_entries)

\* C19 amended: every remaining source entry is in exactly one of matched and
\* missing, and it is missing exactly when its normalised title is empty or
\* none of the four match steps succeeds against the target.
C19_MissingIffNoTitleOrNoStep ==
    last.op = "compare_libraries" =>
        /\ InOneList(last.diff)
        /\ \A book \in EntriesOf(last.diff.source_entries) :
              book \in EntriesOf(last.diff.missing)
              <=> \/ book.norm_title = ""
                  \/ ~SomeStep(book, last.diff.target_entries)

\* C19 witness: a source entry whose normalised title is empty is missing
\* although the target holds the same title under the same author, and another
\* source entry is matched by the fuzzy step under another author only.
C19_Witness ==
    /\ last.op = "compare_libraries"
    /\ \E book \in EntriesOf(last.diff.missing) :
          /\ book.norm_title = ""
          /\ ExactStep(book, last.diff.target_entries, TRUE)
    /\ \E book \in EntriesOf(last.diff.matched) :
          /\ ~ExactStep(book, last.diff.target_entries, FALSE)
          /\ ~FuzzyStep(book, last.diff.target_entries, TRUE)
          /\ FuzzyStep(book, last.diff.target_entries, FALSE)

(***************************************************************************)
(* library_index.py: LibraryIndex.__init__ on alias files of every kind    *)
(*                                                                         *)
(* The state of the alias file says what reading it gives: "absent", "ok", *)
(* "corrupt" (not JSON: json.JSONDecodeError), "unreadable" (read_text     *)
(* raises OSError), "undecodable" (bytes that are not UTF-8:               *)
(* UnicodeDecodeError), "not_object" (JSON that is no object:              *)
(* AttributeError on .items()) and "bad_value" (an object whose values are *)
(* no lists of strings: TypeError).                                        *)
(***************************************************************************)

UnreadableAliasFile == [state |-> "unreadable", map |-> [c \in {} |-> {}]]
UndecodableAliasFile == [state |-> "undecodable", map |-> [c \in {} |-> {}]]
NotObjectAliasFile == [state |-> "not_object", map |-> [c \in {} |-> {}]]
BadValueAliasFile == [state |-> "bad_value", map |-> [c \in {} |-> {}]]

AliasFiles ==
    {NoAliasFile, SomeAliasFile, CorruptAliasFile, UnreadableAliasFile,
     UndecodableAliasFile, NotObjectAliasFile, BadValueAliasFile}

\* _load_aliases: the exception that leaves it ("" for none), whether it logged
\* a warning, and the aliases it loaded; only json.JSONDecodeError and OSError
\* are caught
_load_aliases(file) ==
    IF file.state \in {"absent", "ok"}
    THEN [raised |-> "", warned |-> FALSE, aliases |-> LoadAliases(file)]
    ELSE IF file.state \in {"corrupt", "unreadable"}
    THEN [raised |-> "", warned |-> TRUE, aliases |-> EmptyMap]
    ELSE IF file.state = "undecodable"
    THEN [raised |-> "UnicodeDecodeError", warned |-> FALSE, aliases |-> EmptyMap]
    ELSE IF file.state = "not_object"
    THEN [raised |-> "AttributeError", warned |-> FALSE, aliases |-> EmptyMap]
    ELSE [raised |-> "TypeError", warned |-> FALSE, aliases |-> EmptyMap]

\* a library on disk with its alias file, and no index built yet
InitAliases ==
    /\ folders = ScanFolders(NoListing)
    /\ files = {}
    /\ processed = {}
    /\ authors_by_surname = EmptyMap
    /\ author_aliases = EmptyMap
    /\ alias_file \in AliasFiles
    /\ alias_writable \in BOOLEAN
    /\ config = NoConfig
    /\ disk_dirs = ListedDirs(AuthorLibrary.listing)
    /\ disk_files = AuthorLibrary.files
    /\ stage_status = [b \in {} |-> ""]
    /\ registered = {}
    /\ marked = {}
    /\ saved_aliases = EmptyMap
    /\ calls = 0
    /\ last = [NoCall EXCEPT !.op = "library"]

\* LibraryIndex(library_root); loaded is what _load_aliases does.  An exception
\* that leaves _load_aliases leaves __init__, so there is no index then.
ConstructWith(loaded) ==
    /\ last.op = "library"
    /\ IF loaded.raised # ""
       THEN /\ last' = [NoCall EXCEPT !.op = "LibraryIndex", !.io = loaded.raised]
            /\ UNCHANGED <<folders, files, authors_by_surname, author_aliases>>
       ELSE /\ folders' = ScanFolders(AuthorLibrary.listing)
            /\ files' = AuthorLibrary.files
            /\ authors_by_surname' = ScanAuthors(ScanFolders(AuthorLibrary.listing))
            /\ author_aliases' = loaded.aliases
            /\ last' = [NoCall EXCEPT !.op = "LibraryIndex",
                                      !.io = IF loaded.warned THEN "warning" ELSE ""]
    /\ calls' = calls + 1
    /\ UNCHANGED <<processed, alias_file, alias_writable, config, disk_dirs, disk_files,
                   stage_status, registered, marked, saved_aliases>>

Construct == ConstructWith(_load_aliases(alias_file))

\* the index exists: __init__ returned
Constructed ==
    \/ last.op = "LibraryIndex" /\ last.io \in {"", "warning"}
    \/ last.op = "match_author"

\* match_author(desired) on the index that was built
AliasMatchAuthor(desired) == Constructed /\ MatchAuthor(desired)

NextAliases ==
    \/ Construct
    \/ \E d \in AuthorInputs : AliasMatchAuthor(d)

SpecAliases == InitAliases /\ [][NextAliases]_vars

\* the alias file is corrupt: reading it does not give an alias table
AliasFileCorrupt ==
    alias_file.state \in {"corrupt", "undecodable", "not_object", "bad_value"}

\* C20: if the alias file is corrupt or cannot be written, index construction
\* and match_author still succeed: construction ends with a warning and no
\* exception, and a canonical name that match_author returns is recorded in the
\* in-memory alias table.
C20_AliasTroubleSurvived ==
    /\ (last.op = "LibraryIndex" /\ AliasFileCorrupt) => last.io = "warning"
    /\ (last.op = "match_author" /\ last.flag /\ last.arg # last.ret) =>
          AliasGet(author_aliases, last.arg) = last.ret

\* C20: where the write to disk fails, only the write is skipped: the file
\* stays as it was while the alias is in memory.
C20_OnlyWriteSkipped ==
    [][~alias_writable => alias_file' = alias_file]_vars

\* C20, the handled part: a file that is not JSON or cannot be read ends
\* construction with a warning and an empty alias table.
C20_SyntaxErrorsCaught ==
    (last.op = "LibraryIndex" /\ alias_file.state \in {"corrupt", "unreadable"}) =>
        /\ last.io = "warning"
        /\ author_aliases = EmptyMap

\* C20: index construction ended with an exception on an alias file whose
\* bytes are not UTF-8.
C20_ConstructionRaised ==
    /\ last.op = "LibraryIndex"
    /\ alias_file.state = "undecodable"
    /\ last.io = "UnicodeDecodeError"

\* C20: with an alias file that cannot be written, match_author returned the
\* canonical name and recorded it in memory, and the file is still corrupt.
C20_UnwritableSurvived ==
    /\ last.op = "match_author"
    /\ ~alias_writable
    /\ alias_file.state = "corrupt"
    /\ last.arg = "Bob Salvatore"
    /\ last.ret = "R. A. Salvatore"
    /\ last.flag
    /\ AliasGet(author_aliases, "Bob Salvatore") = "R. A. Salvatore"

(***************************************************************************)
(* ops/audit.py: apply_fixes                                               *)
(*                                                                         *)
(* The filesystem under the library root maps every path that exists to    *)
(* its kind and to whether its modification time was set since the audit.  *)
(***************************************************************************)

\* the longest list of findings handed to apply_fixes
MaxFindings == 2

\* the library at the time of the fixes: a leftover source file, a book, an
\* author directory; "gone.mp3" was removed since the audit
AuditFs ==
    ("Author/Book/leftover.mp3" :> [kind |-> "file", touched |-> FALSE]) @@
    ("Author/Book/book.m4b" :> [kind |-> "file", touched |-> FALSE]) @@
    ("Author" :> [kind |-> "dir", touched |-> FALSE])

AuditPaths == {"Author/Book/leftover.mp3", "Author/Book/book.m4b", "Author", "gone.mp3"}

\* AuditFinding: the fields apply_fixes reads
AuditFinding == [path : AuditPaths, fixable : BOOLEAN, fix_action : {"delete", "touch", ""}]

\* the filesystem without a path
Unlinked(fs, path) == [p \in DOMAIN fs \ {path} |-> fs[p]]

\* an apply_fixes that forgets to look at the fixable flag
ApplyFix_any_finding(st, finding, dry_run) ==
    IF st.raised # "" THEN st
    ELSE IF finding.path \notin DOMAIN st.fs THEN st
    ELSE IF finding.fix_action = "delete"
    THEN IF dry_run
         THEN [st EXCEPT !.actions = Append(@, "[DRY-RUN] Would delete: " \o finding.path)]
         ELSE IF st.fs[finding.path].kind = "dir"
         THEN [st EXCEPT !.raised = "IsADirectoryError"]
         ELSE [st EXCEPT !.fs = Unlinked(@, finding.path),
                         !.actions = Append(@, "Deleted: " \o finding.path)]
    ELSE IF finding.fix_action = "touch"
    THEN IF dry_run
         THEN [st EXCEPT !.actions = Append(@, "[DRY-RUN] Would touch: " \o finding.path)]
         ELSE [st EXCEPT !.fs[finding.path].touched = TRUE,
                         !.actions = Append(@, "Touched: " \o finding.path)]
    ELSE st

\* lines 766-790: one round of the loop of apply_fixes; unlink() of a directory
\* raises, and the exception leaves apply_fixes
ApplyFix(st, finding, dry_run) ==
    IF st.raised # "" THEN st
    ELSE IF ~finding.fixable THEN st
    ELSE IF finding.path \notin DOMAIN st.fs THEN st
    ELSE IF finding.fix_action = "delete"
    THEN IF dry_run
         THEN [st EXCEPT !.actions = Append(@, "[DRY-RUN] Would delete: " \o finding.path)]
         ELSE IF st.fs[finding.path].kind = "dir"
         THEN [st EXCEPT !.raised = "IsADirectoryError"]
         ELSE [st EXCEPT !.fs = Unlinked(@, finding.path),
                         !.actions = Append(@, "Deleted: " \o finding.path)]
    ELSE IF finding.fix_action = "touch"
    THEN IF dry_run
         THEN [st EXCEPT !.actions = Append(@, "[DRY-RUN] Would touch: " \o finding.path)]
         ELSE [st EXCEPT !.fs[finding.path].touched = TRUE,
                         !.actions = Append(@, "Touched: " \o finding.path)]
    ELSE st

RECURSIVE ApplyFrom(_, _, _, _)
ApplyFrom(st, findings, i, dry_run) ==
    IF i > Len(findings) THEN st
    ELSE ApplyFrom(ApplyFix(st, findings[i], dry_run), findings, i + 1, dry_run)

\* apply_fixes(library_root, findings, dry_run): the filesystem afterwards, the
\* actions returned and the exception raised ("" for none)
apply_fixes(fs, findings, dry_run) ==
    ApplyFrom([fs |-> fs, actions |-> <<>>, raised |-> ""], findings, 1, dry_run)

\* a caller holds the findings of an audit
InitFixes ==
    /\ InitIndex(EmptyLibrary, NoAliasFile, TRUE)
    /\ config = NoConfig
    /\ \E n \in 0..MaxFindings, dry_run \in BOOLEAN :
          \E findings \in [1..n -> AuditFinding] :
             last = [op |-> "findings", fs |-> AuditFs, findings |-> findings,
                     dry_run |-> dry_run,
                     ret |-> [fs |-> AuditFs, actions |-> <<>>, raised |-> ""]]

\* apply_fixes(library_root, findings, dry_run)
ApplyFixes ==
    /\ last.op = "findings"
    /\ last' = [last EXCEPT !.op = "apply_fixes",
                            !.ret = apply_fixes(last.fs, last.findings, last.dry_run)]
    /\ calls' = calls + 1
    /\ IndexUnchanged

NextFixes == ApplyFixes

SpecFixes == InitFixes /\ [][NextFixes]_vars

\* what a path is on a filesystem, "absent" included
FsAt(fs, path) == IF path \in DOMAIN fs THEN fs[path] ELSE [kind |-> "absent", touched |-> FALSE]

\* the findings flagged fixable that name an action and whose target exists
Actionable(findings, fs) ==
    SelectSeq(findings, LAMBDA f : /\ f.fixable
                                   /\ f.path \in DOMAIN fs
                                   /\ f.fix_action \in {"delete", "touch"})

\* the report of a dry run on a finding
WouldTake(finding) ==
    (IF finding.fix_action = "delete" THEN "[DRY-RUN] Would delete: "
     ELSE "[DRY-RUN] Would touch: ") \o finding.path

\* C21: apply_fixes changes a path only if a finding flagged fixable names it,
\* reports no more actions than there are fixable findings, and with dry_run
\* set it leaves the filesystem as it was and reports, in order, the action of
\* every fixable finding whose target exists.
C21_OnlyFixableDryRunInert ==
    last.op = "apply_fixes" =>
        /\ \A p \in AuditPaths :
              FsAt(last.ret.fs, p) # FsAt(last.fs, p) =>
                 \E i \in 1..Len(last.findings) :
                    last.findings[i].path = p /\ last.findings[i].fixable
        /\ Len(last.ret.actions) <= Len(Actionable(last.findings, last.fs))
        /\ last.dry_run =>
              /\ last.ret.fs = last.fs
              /\ last.ret.raised = ""
              /\ last.ret.actions =
                    [i \in 1..Len(Actionable(last.findings, last.fs)) |->
                        WouldTake(Actionable(last.findings, last.fs)[i])]

\* C21 witness: a dry run over a fixable delete and a fixable touch of files
\* that exist reported both actions and left both files as they were.
C21_Witness ==
    /\ last.op = "apply_fixes"
    /\ last.dry_run
    /\ Len(last.findings) = 2
    /\ last.findings[1] = [path |-> "Author/Book/leftover.mp3", fixable |-> TRUE,
                           fix_action |-> "delete"]
    /\ last.findings[2] = [path |-> "Author/Book/book.m4b", fixable |-> TRUE,
                           fix_action |-> "touch"]
    /\ last.ret.actions = <<"[DRY-RUN] Would delete: Author/Book/leftover.mp3",
                            "[DRY-RUN] Would touch: Author/Book/book.m4b">>
    /\ last.ret.fs = AuditFs

(***************************************************************************)
(* models.py, manifest.py, pipeline_db.py: the two stores of book state    *)
(*                                                                         *)
(* A store maps a book hash to the record of the book: its mode, status,   *)
(* retry count, whether an error is recorded, and for every stage its      *)
(* status and whether it has a completed_at.  A call gives the store       *)
(* afterwards, the value returned ("" for None) and the exception raised   *)
(* ("" for none).                                                          *)
(***************************************************************************)

\* class Stage, in the order of its members
Stage == <<"validate", "concat", "convert", "asin", "metadata", "organize", "archive",
           "cleanup">>

StageStatus == {"pending", "running", "completed", "failed"}

PipelineMode == {"convert", "enrich", "metadata", "organize"}

\* Which stages run for each mode
STAGE_ORDER ==
    [mode \in PipelineMode |->
        IF mode = "convert"
        THEN <<"validate", "concat", "convert", "asin", "metadata", "organize", "archive",
               "cleanup">>
        ELSE IF mode = "enrich" THEN <<"asin", "metadata", "organize", "cleanup">>
        ELSE IF mode = "metadata" THEN <<"asin", "metadata", "cleanup">>
        ELSE <<"asin", "metadata", "organize">>]

\* a STAGE_ORDER that runs the metadata stage before the asin stage
STAGE_ORDER_metadata_first ==
    [mode \in PipelineMode |->
        IF mode = "convert"
        THEN <<"validate", "concat", "convert", "metadata", "asin", "organize", "archive",
               "cleanup">>
        ELSE IF mode = "enrich" THEN <<"metadata", "asin", "organize", "cleanup">>
        ELSE IF mode = "metadata" THEN <<"metadata", "asin", "cleanup">>
        ELSE <<"metadata", "asin", "organize">>]

\* Stages that are pre-completed for non-convert modes
PRE_COMPLETED_STAGES ==
    [mode \in PipelineMode |->
        IF mode = "convert" THEN {} ELSE {"validate", "concat", "convert"}]

NoStore == [book_hash \in {} |-> ""]

Returned(store, ret) == [store |-> store, ret |-> ret, raised |-> ""]
Raised(store, exception) == [store |-> store, ret |-> "", raised |-> exception]

\* the record both stores write for a new book
NewBook(mode, pre) ==
    [mode |-> mode, status |-> "pending", retry_count |-> 0, last_error |-> FALSE,
     stages |-> [stage \in Range(Stage) |->
                    IF stage \in pre THEN [status |-> "completed", completed_at |-> TRUE]
                    ELSE [status |-> "pending", completed_at |-> FALSE]]]

\* a get_next_stage that returns the last incomplete stage
RECURSIVE LastIncomplete(_, _, _)
LastIncomplete(stages, record, i) ==
    IF i > Len(stages) THEN ""
    ELSE IF LastIncomplete(stages, record, i + 1) # ""
    THEN LastIncomplete(stages, record, i + 1)
    ELSE IF record.stages[stages[i]].status # "completed" THEN stages[i]
    ELSE ""

\* the first stage of the list from place i on whose status is not "completed",
\* "" if there is none
RECURSIVE FirstIncomplete(_, _, _)
FirstIncomplete(stages, record, i) ==
    IF i > Len(stages) THEN ""
    ELSE IF record.stages[stages[i]].status # "completed" THEN stages[i]
    ELSE FirstIncomplete(stages, record, i + 1)

(* Manifest: one JSON file per book *)

Manifest_create(store, book_hash, mode) ==
    Returned(MapSet(store, book_hash, NewBook(mode, PRE_COMPLETED_STAGES[mode])), "")

\* update(book_hash, {"status": status})
Manifest_update(store, book_hash, status) ==
    IF book_hash \notin DOMAIN store THEN Raised(store, "ManifestError")
    ELSE Returned([store EXCEPT ![book_hash].status = status], "")

Manifest_set_stage(store, book_hash, stage, status) ==
    IF book_hash \notin DOMAIN store THEN Raised(store, "ManifestError")
    ELSE Returned([store EXCEPT
                     ![book_hash].stages[stage].status = status,
                     ![book_hash].stages[stage].completed_at =
                        IF status = "completed" THEN TRUE ELSE @], "")

Manifest_check_status(store, book_hash) ==
    IF book_hash \notin DOMAIN store THEN Returned(store, "new")
    ELSE Returned(store, store[book_hash].status)

Manifest_get_next_stage(store, book_hash, mode) ==
    IF book_hash \notin DOMAIN store THEN Raised(store, "ManifestError")
    ELSE Returned(store, FirstIncomplete(STAGE_ORDER[mode], store[book_hash], 1))

Manifest_increment_retry(store, book_hash) ==
    IF book_hash \notin DOMAIN store THEN Raised(store, "ManifestError")
    ELSE Returned([store EXCEPT ![book_hash].retry_count = @ + 1], "")

Manifest_set_error(store, book_hash) ==
    IF book_hash \notin DOMAIN store THEN Raised(store, "ManifestError")
    ELSE Returned([store EXCEPT ![book_hash].last_error = TRUE], "")

(* PipelineDB: the books and stages tables *)

PipelineDB_create(store, book_hash, mode) ==
    Returned(MapSet(store, book_hash, NewBook(mode, PRE_COMPLETED_STAGES[mode])), "")

\* update(book_hash, {"status": status})
PipelineDB_update(store, book_hash, status) ==
    IF book_hash \notin DOMAIN store THEN Raised(store, "ManifestError")
    ELSE Returned([store EXCEPT ![book_hash].status = status], "")

\* a set_stage that looks for the book first, as Manifest does
PipelineDB_set_stage_checked(store, book_hash, stage, status) ==
    Manifest_set_stage(store, book_hash, stage, status)

\* set_stage: two UPDATE statements, which change nothing when no row matches,
\* and completed_at is set to NULL for every status but COMPLETED
PipelineDB_set_stage(store, book_hash, stage, status) ==
    IF book_hash \notin DOMAIN store THEN Returned(store, "")
    ELSE Returned([store EXCEPT
                     ![book_hash].stages[stage] =
                        [status |-> status, completed_at |-> status = "completed"]], "")

PipelineDB_check_status(store, book_hash) ==
    IF book_hash \notin DOMAIN store THEN Returned(store, "new")
    ELSE Returned(store, store[book_hash].status)

PipelineDB_get_next_stage(store, book_hash, mode) ==
    IF book_hash \notin DOMAIN store THEN Raised(store, "ManifestError")
    ELSE Returned(store, FirstIncomplete(STAGE_ORDER[mode], store[book_hash], 1))

PipelineDB_increment_retry(store, book_hash) ==
    IF book_hash \notin DOMAIN store THEN Raised(store, "ManifestError")
    ELSE Returned([store EXCEPT ![book_hash].retry_count = @ + 1], "")

PipelineDB_set_error(store, book_hash) ==
    IF book_hash \notin DOMAIN store THEN Raised(store, "ManifestError")
    ELSE Returned([store EXCEPT ![book_hash].last_error = TRUE], "")

\* read_field(book_hash, "stages.<stage>.status"), "" standing for None
read_field_status(store, book_hash, stage) ==
    IF book_hash \notin DOMAIN store THEN "" ELSE store[book_hash].stages[stage].status

(***************************************************************************)
(* The same calls on a Manifest and on a PipelineDB                        *)
(*                                                                         *)
(* stage_status holds the rows of the PipelineDB and disk_files the files  *)
(* of the manifest directory; last holds what the last call gave on each.  *)
(***************************************************************************)

\* the most calls made on the stores
MaxStoreCalls == 3

StoreBooks == {"h1"}

NoResult == [ret |-> "", raised |-> ""]

\* two new stores
InitStores ==
    /\ folders = ScanFolders(NoListing)
    /\ files = {}
    /\ processed = {}
    /\ authors_by_surname = EmptyMap
    /\ author_aliases = EmptyMap
    /\ alias_file = NoAliasFile
    /\ alias_writable = TRUE
    /\ config = NoConfig
    /\ disk_dirs = {}
    /\ disk_files = NoStore
    /\ stage_status = NoStore
    /\ registered = {}
    /\ marked = {}
    /\ saved_aliases = EmptyMap
    /\ calls = 0
    /\ last = [op |-> "none", manifest |-> NoResult, db |-> NoResult]

\* one call made on both stores; m and d are what the call gives on each
StoreCall(op, m, d) ==
    /\ calls < MaxStoreCalls
    /\ disk_files' = m.store
    /\ stage_status' = d.store
    /\ last' = [op |-> op,
                manifest |-> [ret |-> m.ret, raised |-> m.raised],
                db |-> [ret |-> d.ret, raised |-> d.raised]]
    /\ calls' = calls + 1
    /\ UNCHANGED <<folders, files, processed, authors_by_surname, author_aliases,
                   alias_file, alias_writable, config, disk_dirs, registered, marked,
                   saved_aliases>>

StoreCreate(book_hash, mode) ==
    StoreCall("create", Manifest_create(disk_files, book_hash, mode),
              PipelineDB_create(stage_status, book_hash, mode))

StoreUpdate(book_hash, status) ==
    StoreCall("update", Manifest_update(disk_files, book_hash, status),
              PipelineDB_update(stage_status, book_hash, status))

StoreSetStage(book_hash, stage, status) ==
    StoreCall("set_stage", Manifest_set_stage(disk_files, book_hash, stage, status),
              PipelineDB_set_stage(stage_status, book_hash, stage, status))

StoreCheckStatus(book_hash) ==
    StoreCall("check_status", Manifest_check_status(disk_files, book_hash),
              PipelineDB_check_status(stage_status, book_hash))

StoreGetNextStage(book_hash, mode) ==
    StoreCall("get_next_stage", Manifest_get_next_stage(disk_files, book_hash, mode),
              PipelineDB_get_next_stage(stage_status, book_hash, mode))

StoreIncrementRetry(book_hash) ==
    StoreCall("increment_retry", Manifest_increment_retry(disk_files, book_hash),
              PipelineDB_increment_retry(stage_status, book_hash))

StoreSetError(book_hash) ==
    StoreCall("set_error", Manifest_set_error(disk_files, book_hash),
              PipelineDB_set_error(stage_status, book_hash))

NextStores ==
    \E book_hash \in StoreBooks :
       \/ \E mode \in PipelineMode : StoreCreate(book_hash, mode)
       \/ \E status \in {"processing", "completed"} : StoreUpdate(book_hash, status)
       \/ \E i \in DOMAIN Stage, status \in StageStatus :
             StoreSetStage(book_hash, Stage[i], status)
       \/ StoreCheckStatus(book_hash)
       \/ \E mode \in PipelineMode : StoreGetNextStage(book_hash, mode)
       \/ StoreIncrementRetry(book_hash)
       \/ StoreSetError(book_hash)

SpecStores == InitStores /\ [][NextStores]_vars

\* the stage statuses of the two stores are the same
SameStatuses ==
    /\ DOMAIN disk_files = DOMAIN stage_status
    /\ \A book_hash \in DOMAIN disk_files, stage \in Range(Stage) :
          disk_files[book_hash].stages[stage].status
          = stage_status[book_hash].stages[stage].status

\* a stage has a completed_at in both stores or in neither
SameCompletedAt ==
    \A book_hash \in DOMAIN disk_files \cap DOMAIN stage_status, stage \in Range(Stage) :
       disk_files[book_hash].stages[stage].completed_at
       = stage_status[book_hash].stages[stage].completed_at

\* C26: after any sequence of create, update, set_stage, check_status,
\* get_next_stage, increment_retry and set_error calls the two stores give the
\* same results: the same value returned, ManifestError raised by both or by
\* neither, the same stage statuses, and a completed_at on the same stages.
C26_StoresAgree ==
    /\ last.manifest = last.db
    /\ SameStatuses
    /\ SameCompletedAt

\* C26, the part that holds: the stage statuses, the book status and the retry
\* count of the two stores never differ.
C26_StatusesAgree ==
    /\ SameStatuses
    /\ \A book_hash \in DOMAIN disk_files :
          /\ disk_files[book_hash].status = stage_status[book_hash].status
          /\ disk_files[book_hash].retry_count = stage_status[book_hash].retry_count

\* C26: set_stage for a book without a record raised ManifestError on the
\* Manifest and returned on the PipelineDB.
C26_OnlyManifestRaised ==
    /\ last.op = "set_stage"
    /\ last.manifest.raised = "ManifestError"
    /\ last.db.raised = ""

\* C26: a stage that was completed and then set to running keeps its
\* completed_at in the Manifest and loses it in the PipelineDB.
C26_CompletedAtDiffers ==
    /\ last.op = "set_stage"
    /\ "h1" \in DOMAIN disk_files
    /\ \E stage \in Range(Stage) :
          /\ disk_files["h1"].stages[stage] = [status |-> "running", completed_at |-> TRUE]
          /\ stage_status["h1"].stages[stage] = [status |-> "running", completed_at |-> FALSE]

(***************************************************************************)
(* get_next_stage on book records of every kind                            *)
(***************************************************************************)

\* the statuses the stages of the record have
NextStatuses == {"pending", "completed", "failed"}

\* the record of a book whose stages have the given statuses
BookWith(mode, statuses) ==
    [NewBook(mode, {}) EXCEPT
        !.stages = [stage \in Range(Stage) |->
                       [status |-> statuses[stage],
                        completed_at |-> statuses[stage] = "completed"]]]

\* a store without the book, or with a record of it
InitNext ==
    /\ InitIndex(EmptyLibrary, NoAliasFile, TRUE)
    /\ config = NoConfig
    /\ \E mode \in PipelineMode :
          \/ last = [op |-> "book", store |-> NoStore, mode |-> mode,
                     db |-> NoResult, manifest |-> NoResult]
          \/ \E statuses \in [Range(Stage) -> NextStatuses] :
                last = [op |-> "book",
                        store |-> ("h1" :> BookWith("convert", statuses)),
                        mode |-> mode, db |-> NoResult, manifest |-> NoResult]

Result(r) == [ret |-> r.ret, raised |-> r.raised]

\* get_next_stage(book_hash, mode) of both stores
GetNextStage ==
    /\ last.op = "book"
    /\ last' = [last EXCEPT
                  !.op = "get_next_stage",
                  !.db = Result(PipelineDB_get_next_stage(last.store, "h1", last.mode)),
                  !.manifest = Result(Manifest_get_next_stage(last.store, "h1", last.mode))]
    /\ calls' = calls + 1
    /\ IndexUnchanged

NextNext == GetNextStage

SpecNext == InitNext /\ [][NextNext]_vars

\* the places of STAGE_ORDER[mode] whose stage is not completed in the record
Incomplete(record, mode) ==
    {i \in DOMAIN STAGE_ORDER[mode] :
        record.stages[STAGE_ORDER[mode][i]].status # "completed"}

\* what the claim says of one result
NextStageAsClaimed(result) ==
    IF "h1" \notin DOMAIN last.store THEN result.raised = "ManifestError"
    ELSE /\ result.raised = ""
         /\ result.ret = "" <=> Incomplete(last.store["h1"], last.mode) = {}
         /\ result.ret # "" =>
               \E i \in Incomplete(last.store["h1"], last.mode) :
                  /\ result.ret = STAGE_ORDER[last.mode][i]
                  /\ \A j \in Incomplete(last.store["h1"], last.mode) : i <= j

\* C30: get_next_stage(book, mode) returns the first stage in STAGE_ORDER[mode]
\* whose recorded status is not completed, returns None exactly when every
\* stage of that mode is completed, and raises ManifestError when the book has
\* no record; PipelineDB and Manifest alike.
C30_FirstIncompleteStage ==
    last.op = "get_next_stage" =>
        /\ NextStageAsClaimed(last.db)
        /\ NextStageAsClaimed(last.manifest)

\* C30 witness: with validate completed, concat failed and convert pending,
\* get_next_stage in convert mode returned concat.
C30_Witness ==
    /\ last.op = "get_next_stage"
    /\ last.mode = "convert"
    /\ "h1" \in DOMAIN last.store
    /\ last.store["h1"].stages["validate"].status = "completed"
    /\ last.store["h1"].stages["concat"].status = "failed"
    /\ last.store["h1"].stages["convert"].status = "pending"
    /\ last.db.ret = "concat"
    /\ last.manifest.ret = "concat"


(***************************************************************************)
(* One book through its stages: PipelineRunner._run_single and             *)
(* ConvertOrchestrator._run_single                                         *)
(*                                                                         *)
(* stage_status holds the rows of the PipelineDB; last holds the run: its  *)
(* configuration, the stage list, the place in the loop and the stages     *)
(* executed so far with the status each one left.                          *)
(***************************************************************************)

\* the most runs of the book
MaxBookRuns == 2

\* the levels; ai and full keep every stage, as normal does
Levels == {"simple", "normal"}

\* what the runner looks for under a source path
BookSources ==
    {[is_dir |-> FALSE, has_m4b |-> TRUE, has_convertible |-> FALSE],
     [is_dir |-> TRUE, has_m4b |-> TRUE, has_convertible |-> TRUE],
     [is_dir |-> TRUE, has_m4b |-> FALSE, has_convertible |-> TRUE],
     [is_dir |-> TRUE, has_m4b |-> FALSE, has_convertible |-> FALSE]}

\* a directory of loose audio, as run_batch hands to the orchestrator
LooseAudioDir == [is_dir |-> TRUE, has_m4b |-> FALSE, has_convertible |-> TRUE]

\* Auto-promote: organize mode dirs with convertible audio but no .m4b
EffectiveMode(mode, source) ==
    IF mode = "organize" /\ source.is_dir /\ ~source.has_m4b /\ source.has_convertible
    THEN "convert"
    ELSE mode

RECURSIVE Without(_, _, _)
Without(stages, dropped, i) ==
    IF i > Len(stages) THEN <<>>
    ELSE IF stages[i] \in dropped THEN Without(stages, dropped, i + 1)
    ELSE <<stages[i]>> \o Without(stages, dropped, i + 1)

\* Simple level: strip organize and archive
RunnerStages(effective_mode, level) ==
    IF level = "simple"
    THEN Without(STAGE_ORDER[effective_mode], {"organize", "archive"}, 1)
    ELSE STAGE_ORDER[effective_mode]

\* MVP stages (skip ARCHIVE)
mvp_stages == <<"validate", "concat", "convert", "asin", "metadata", "organize", "cleanup">>

\* the stages get_stage_runner has a runner for
Implemented == {"validate", "concat", "convert", "asin", "metadata", "organize", "cleanup"}

\* the stages _is_stage_stale looks at
StaleChecked == {"validate", "concat", "convert", "metadata"}

\* how a stage runner ends: it leaves its stage completed or failed, or raises; cleanup
\* never sets FAILED
StageOutcomes(stage) ==
    IF stage = "cleanup" THEN {"completed", "raised"} ELSE {"completed", "failed", "raised"}

\* the status a stage runner leaves: every runner but cleanup sets RUNNING first, and
\* cleanup sets nothing before COMPLETED
StatusLeft(stage, before, outcome) ==
    IF outcome = "raised"
    THEN IF stage = "cleanup" THEN before ELSE "running"
    ELSE outcome

\* a check after the stage that lets a failed stage pass
StageFailed_never(post_status) == FALSE

\* Check if stage failed (stages may set FAILED without raising)
StageFailed(post_status) == post_status = "failed"

\* Create or load book record
CreateOrLoad(store, book_hash, mode) ==
    IF book_hash \in DOMAIN store THEN store
    ELSE PipelineDB_create(store, book_hash, mode).store

NoRun ==
    [op |-> "idle", kind |-> "", mode |-> "", effective_mode |-> "", force |-> FALSE,
     level |-> "", dry_run |-> FALSE, source |-> LooseAudioDir, stages |-> <<>>, pos |-> 0,
     executed |-> <<>>, raised |-> ""]

\* no record of the book, no run yet
InitRunner ==
    /\ InitIndex(EmptyLibrary, NoAliasFile, TRUE)
    /\ config = NoConfig
    /\ last = NoRun

RunnerUnchanged ==
    UNCHANGED <<folders, files, processed, authors_by_surname, author_aliases, alias_file,
                alias_writable, config, disk_dirs, disk_files, registered, marked,
                saved_aliases>>

\* PipelineRunner._run_single up to its loop: the record is created with the runner's
\* mode, the stage list is that of the effective mode
RunSingle(mode, source, force, level) ==
    /\ last.op # "running"
    /\ calls < MaxBookRuns
    /\ stage_status' = CreateOrLoad(stage_status, "h1", mode)
    /\ last' = [op |-> "running", kind |-> "runner", mode |-> mode,
                effective_mode |-> EffectiveMode(mode, source), force |-> force,
                level |-> level, dry_run |-> FALSE, source |-> source,
                stages |-> RunnerStages(EffectiveMode(mode, source), level), pos |-> 1,
                executed |-> <<>>, raised |-> ""]
    /\ calls' = calls + 1
    /\ RunnerUnchanged

\* ConvertOrchestrator._run_single up to its loop
OrchestratorRunSingle(force, dry_run) ==
    /\ last.op # "running"
    /\ calls < MaxBookRuns
    /\ stage_status' = CreateOrLoad(stage_status, "h1", "convert")
    /\ last' = [op |-> "running", kind |-> "orchestrator", mode |-> "convert",
                effective_mode |-> "convert", force |-> force, level |-> "normal",
                dry_run |-> dry_run, source |-> LooseAudioDir, stages |-> mvp_stages,
                pos |-> 1, executed |-> <<>>, raised |-> ""]
    /\ calls' = calls + 1
    /\ RunnerUnchanged

InLoop == last.op = "running" /\ last.pos <= Len(last.stages)

CurrentStage == last.stages[last.pos]

\* In dry-run, skip metadata/organize
DryRunSkipped ==
    last.kind = "orchestrator" /\ last.dry_run /\ CurrentStage \in {"metadata", "organize"}

AlreadyCompleted ==
    read_field_status(stage_status, "h1", CurrentStage) = "completed" /\ ~last.force

\* whether a completed stage may be found stale
MayBeStale == last.kind = "orchestrator" /\ CurrentStage \in StaleChecked

Continue ==
    /\ last' = [last EXCEPT !.pos = @ + 1]
    /\ UNCHANGED <<stage_status, calls>>
    /\ RunnerUnchanged

\* the orchestrator's loop passes metadata and organize in a dry run
SkipDryRun == InLoop /\ DryRunSkipped /\ Continue

\* SKIP -- already completed
SkipCompleted == InLoop /\ ~DryRunSkipped /\ AlreadyCompleted /\ Continue

\* Skipping unimplemented stage
SkipUnimplemented ==
    /\ InLoop
    /\ last.kind = "runner"
    /\ ~AlreadyCompleted
    /\ CurrentStage \notin Implemented
    /\ Continue

\* the place in the loop after a stage that did not fail: the orchestrator leaves the
\* loop after metadata when the destination already has the file
PlaceAfter(retag) ==
    IF last.kind = "orchestrator" /\ CurrentStage = "metadata" /\ retag
    THEN Len(last.stages) + 1
    ELSE last.pos + 1

\* the stage runner is called and the status it left is read
RunStageWith(outcome, retag, status) ==
    /\ stage_status' = PipelineDB_set_stage(stage_status, "h1", CurrentStage, status).store
    /\ last' = [last EXCEPT
                  !.executed = Append(@, [stage |-> CurrentStage, status |-> status]),
                  !.op = IF outcome = "raised" \/ StageFailed(status) THEN "done" ELSE @,
                  !.raised = IF outcome = "raised" THEN "Exception"
                             ELSE IF StageFailed(status) THEN "RuntimeError"
                             ELSE @,
                  !.pos = IF outcome = "raised" \/ StageFailed(status) THEN @
                          ELSE PlaceAfter(retag)]
    /\ UNCHANGED calls
    /\ RunnerUnchanged

\* one stage is executed: a stage neither skipped nor unimplemented, or a completed one
\* the orchestrator found stale
RunStage(outcome, stale, retag) ==
    /\ InLoop
    /\ ~DryRunSkipped
    /\ CurrentStage \in Implemented
    /\ outcome \in StageOutcomes(CurrentStage)
    /\ IF AlreadyCompleted THEN MayBeStale /\ stale ELSE ~stale
    /\ RunStageWith(outcome, retag,
                    StatusLeft(CurrentStage,
                               IF stale THEN "pending"
                               ELSE read_field_status(stage_status, "h1", CurrentStage),
                               outcome))

\* the loop is over and _run_single returns
FinishRun ==
    /\ last.op = "running"
    /\ last.pos > Len(last.stages)
    /\ last' = [last EXCEPT !.op = "done"]
    /\ UNCHANGED <<stage_status, calls>>
    /\ RunnerUnchanged

NextRunner ==
    \/ \E mode \in PipelineMode, source \in BookSources, force \in BOOLEAN, level \in Levels :
          RunSingle(mode, source, force, level)
    \/ \E force \in BOOLEAN, dry_run \in BOOLEAN : OrchestratorRunSingle(force, dry_run)
    \/ SkipDryRun
    \/ SkipCompleted
    \/ SkipUnimplemented
    \/ \E outcome \in StageOutcomes("asin"), stale \in BOOLEAN, retag \in BOOLEAN :
          RunStage(outcome, stale, retag)
    \/ FinishRun

SpecRunner == InitRunner /\ [][NextRunner]_vars


(***************************************************************************)
(* Claims about one book's run                                             *)
(***************************************************************************)

ExecutedStages == [i \in 1..Len(last.executed) |-> last.executed[i].stage]

\* the place of a stage in a stage list, 0 if it is not there
PlaceIn(stage, order) ==
    IF \E i \in 1..Len(order) : order[i] = stage
    THEN CHOOSE i \in 1..Len(order) : order[i] = stage
    ELSE 0

\* every stage executed so far left the status completed
AllSucceeded == \A i \in 1..Len(last.executed) : last.executed[i].status = "completed"

\* the runner's first run of the book, in organize mode, on a directory with
\* convertible audio and no .m4b
PromotedRun ==
    /\ last.kind = "runner"
    /\ calls = 1
    /\ last.mode = "organize"
    /\ last.source = LooseAudioDir

\* C22, as stated: in the runner's organize-mode run of a directory with convertible
\* audio and no .m4b, validate, concat and convert are executed, in that order, before
\* asin, metadata and organize: when asin has been executed, the three were executed
\* first
C22_PromotedRunsConversion ==
    (PromotedRun /\ PlaceIn("asin", ExecutedStages) # 0)
        => /\ PlaceIn("asin", ExecutedStages) = 4
           /\ SubSeq(ExecutedStages, 1, 3) = <<"validate", "concat", "convert">>

\* C22: the promoted run that returned after executing asin, metadata, organize and
\* cleanup only, the record having been created with validate, concat and convert
\* completed
C22_PromotedSkipsConversion ==
    /\ PromotedRun
    /\ last.op = "done"
    /\ last.raised = ""
    /\ last.effective_mode = "convert"
    /\ ExecutedStages = <<"asin", "metadata", "organize", "cleanup">>

\* C22: a promoted run executes validate, concat and convert when it is forced
C22_ForcedPromotedRunsConversion ==
    (PromotedRun /\ last.force /\ PlaceIn("asin", ExecutedStages) # 0)
        => /\ PlaceIn("asin", ExecutedStages) = 4
           /\ SubSeq(ExecutedStages, 1, 3) = <<"validate", "concat", "convert">>

\* C22: the forced promoted run that executed asin after the three conversion stages
C22_ForcedWitness ==
    /\ PromotedRun
    /\ last.force
    /\ ExecutedStages = <<"validate", "concat", "convert", "asin">>

\* C24: within one run the stages executed are stages of STAGE_ORDER for the effective
\* mode, in that order, and a stage that ended failed is the last one executed: the
\* run is over, with RuntimeError
C24_InOrderStopsAtFailed ==
    last.op \in {"running", "done"}
        => /\ \A i \in 1..Len(ExecutedStages) :
                PlaceIn(ExecutedStages[i], STAGE_ORDER[last.effective_mode]) # 0
           /\ \A i, j \in 1..Len(ExecutedStages) :
                i < j => PlaceIn(ExecutedStages[i], STAGE_ORDER[last.effective_mode])
                            < PlaceIn(ExecutedStages[j], STAGE_ORDER[last.effective_mode])
           /\ \A i \in 1..Len(last.executed) :
                last.executed[i].status = "failed"
                    => /\ i = Len(last.executed)
                       /\ last.op = "done"
                       /\ last.raised = "RuntimeError"

\* C24: a run that ended at a failed stage, after other stages and with stages of the
\* list left
C24_Witness ==
    /\ last.op = "done"
    /\ Len(last.executed) >= 2
    /\ last.executed[Len(last.executed)].status = "failed"
    /\ last.pos < Len(last.stages)

\* the runner's first run of the book at a level that strips no stage
FullRun == last.kind = "runner" /\ calls = 1 /\ last.level = "normal"

\* C25, as stated: after a run in which every executed stage succeeded,
\* get_next_stage(book, mode) returns None, whatever the mode
C25_NothingLeftAfterSuccess ==
    (FullRun /\ last.op = "done" /\ last.raised = "" /\ AllSucceeded)
        => PipelineDB_get_next_stage(stage_status, "h1", last.mode).ret = ""

\* C25: the convert-mode run that executed every stage it has a runner for, each one
\* succeeding, after which get_next_stage gives archive
C25_ArchiveLeft ==
    /\ FullRun
    /\ last.op = "done"
    /\ last.raised = ""
    /\ AllSucceeded
    /\ last.mode = "convert"
    /\ Len(last.executed) = 7
    /\ PipelineDB_get_next_stage(stage_status, "h1", "convert").ret = "archive"

\* C25: after such a run no stage but archive is left
C25_OnlyArchiveLeft ==
    (FullRun /\ last.op = "done" /\ last.raised = "" /\ AllSucceeded)
        => PipelineDB_get_next_stage(stage_status, "h1", last.mode).ret \in {"", "archive"}

\* C25: an enrich-mode run after which nothing is left
C25_NothingLeftWitness ==
    /\ FullRun
    /\ last.op = "done"
    /\ AllSucceeded
    /\ last.mode = "enrich"
    /\ Len(last.executed) = 4
    /\ PipelineDB_get_next_stage(stage_status, "h1", "enrich").ret = ""


(***************************************************************************)
(* ConvertOrchestrator.run_batch                                           *)
(*                                                                         *)
(* last holds the batch: the place in run_batch, the input list, queued,   *)
(* active, completed and failed as the code keeps them, the last CPU       *)
(* reading, what each worker job has come to, every submission made and    *)
(* the BatchResult returned.  A book directory is named by its place in    *)
(* the input list.                                                         *)
(***************************************************************************)

\* the most book directories in a batch
MaxBooks == 3

\* the most worker threads
MaxWorkers == 2

\* cpu_ceiling: float = 80.0
cpu_ceiling == 80

\* CPU utilization readings, one below the ceiling and one above
CpuReadings == {50, 90}

\* a loop that ends as soon as nothing is queued
LoopGoesOn_queued_only(queued, active) == queued # <<>>

\* while queued or active
LoopGoesOn(queued, active) == queued # <<>> \/ active # {}

\* queued and len(active) < max_workers and cpu_load < self.config.cpu_ceiling
MaySubmit(queued, active, max_workers, cpu_load) ==
    queued # <<>> /\ Cardinality(active) < max_workers /\ cpu_load < cpu_ceiling

BatchResult(completed, failed, book_dirs) ==
    [completed |-> Len(completed), failed |-> Len(failed), total |-> Len(book_dirs)]

NoBatchResult == [completed |-> 0 - 1, failed |-> 0 - 1, total |-> 0 - 1]

\* run_batch is about to be called on a list of book directories
InitBatch ==
    /\ InitIndex(EmptyLibrary, NoAliasFile, TRUE)
    /\ config = NoConfig
    /\ \E n \in 0..MaxBooks, max_workers \in 1..MaxWorkers :
          last = [op |-> "call", book_dirs |-> [i \in 1..n |-> i],
                  max_workers |-> max_workers, queued |-> <<>>, active |-> {},
                  completed |-> <<>>, failed |-> <<>>, cpu_load |-> 0,
                  jobs |-> [i \in 1..n |-> "none"], submitted |-> <<>>,
                  result |-> NoBatchResult]

BatchStep == UNCHANGED calls /\ IndexUnchanged

\* run_batch up to its loop; an empty list returns at once
RunBatch ==
    /\ last.op = "call"
    /\ last' = IF last.book_dirs = <<>>
               THEN [last EXCEPT !.op = "returned",
                                 !.result = BatchResult(<<>>, <<>>, <<>>)]
               ELSE [last EXCEPT !.op = "loop", !.queued = last.book_dirs]
    /\ BatchStep

\* the head of the outer loop: the CPU load is read
ReadCpu(cpu_load) ==
    /\ last.op = "loop"
    /\ LoopGoesOn(last.queued, last.active)
    /\ last' = [last EXCEPT !.op = "submit", !.cpu_load = cpu_load]
    /\ BatchStep

\* the inner loop: the first queued book is handed to a worker and the CPU load is
\* read again
Submit(cpu_load) ==
    /\ last.op = "submit"
    /\ MaySubmit(last.queued, last.active, last.max_workers, last.cpu_load)
    /\ last' = [last EXCEPT
                  !.queued = Tail(@),
                  !.active = @ \cup {Head(last.queued)},
                  !.jobs[Head(last.queued)] = "running",
                  !.submitted = Append(@, Head(last.queued)),
                  !.cpu_load = cpu_load]
    /\ BatchStep

\* the inner loop is over
EndSubmit ==
    /\ last.op = "submit"
    /\ ~MaySubmit(last.queued, last.active, last.max_workers, last.cpu_load)
    /\ last' = [last EXCEPT !.op = "wait"]
    /\ BatchStep

\* the books of a set, as a list
RECURSIVE ListOf(_)
ListOf(books) ==
    IF books = {} THEN <<>>
    ELSE LET book == CHOOSE b \in books : \A other \in books : b <= other
         IN <<book>> \o ListOf(books \ {book})

\* the active jobs that are over
Done(active, jobs) == {book \in active : jobs[book] \in {"True", "False"}}

\* wait(active.keys(), timeout=5.0, return_when=FIRST_COMPLETED) and the loop over done;
\* with nothing active the outer loop goes round
Wait ==
    /\ last.op = "wait"
    /\ last' = [last EXCEPT
                  !.op = "loop",
                  !.active = @ \ Done(last.active, last.jobs),
                  !.completed =
                     @ \o ListOf({b \in Done(last.active, last.jobs) : last.jobs[b] = "True"}),
                  !.failed =
                     @ \o ListOf({b \in Done(last.active, last.jobs) : last.jobs[b] = "False"})]
    /\ BatchStep

\* a worker's _run_single_safe returns: True, or False after any exception
JobEnds(book, success) ==
    /\ book \in DOMAIN last.jobs
    /\ last.jobs[book] = "running"
    /\ last' = [last EXCEPT !.jobs[book] = IF success THEN "True" ELSE "False"]
    /\ BatchStep

\* the outer loop is over: run_batch returns its BatchResult
ReturnBatch ==
    /\ last.op = "loop"
    /\ ~LoopGoesOn(last.queued, last.active)
    /\ last' = [last EXCEPT
                  !.op = "returned",
                  !.result = BatchResult(last.completed, last.failed, last.book_dirs)]
    /\ BatchStep

NextBatch ==
    \/ RunBatch
    \/ \E cpu_load \in CpuReadings : ReadCpu(cpu_load)
    \/ \E cpu_load \in CpuReadings : Submit(cpu_load)
    \/ EndSubmit
    \/ Wait
    \/ \E book \in 1..MaxBooks, success \in BOOLEAN : JobEnds(book, success)
    \/ ReturnBatch

SpecBatch == InitBatch /\ [][NextBatch]_vars

\* the main thread goes on running and every submitted job terminates
FairSpecBatch ==
    /\ SpecBatch
    /\ WF_vars(RunBatch)
    /\ WF_vars(\E cpu_load \in CpuReadings : ReadCpu(cpu_load))
    /\ WF_vars(\E cpu_load \in CpuReadings : Submit(cpu_load))
    /\ WF_vars(EndSubmit)
    /\ WF_vars(Wait)
    /\ WF_vars(ReturnBatch)
    /\ \A book \in 1..MaxBooks : WF_vars(\E success \in BOOLEAN : JobEnds(book, success))

\* how many times a book is in a list
Times(book, list) == Cardinality({i \in 1..Len(list) : list[i] = book})

\* C27: when run_batch has returned, every book directory of the input was submitted
\* exactly once and is exactly once in completed or failed, and
\* completed + failed = total = the number of input directories
C27_EachBookCountedOnce ==
    last.op = "returned"
        => /\ \A book \in 1..Len(last.book_dirs) :
                /\ Times(book, last.submitted) = 1
                /\ Times(book, last.completed) + Times(book, last.failed) = 1
           /\ Len(last.submitted) = Len(last.book_dirs)
           /\ last.result.completed + last.result.failed = last.result.total
           /\ last.result.total = Len(last.book_dirs)

\* C27: a batch of three that returned with books completed and books failed
C27_Witness ==
    /\ last.op = "returned"
    /\ Len(last.book_dirs) = 3
    /\ last.result.completed >= 1
    /\ last.result.failed >= 1

\* C28, as stated: run_batch eventually returns, every submitted job terminating,
\* whatever CPU readings are observed
C28_BatchReturns == <>(last.op = "returned")

\* C28: the loop has gone round with books queued, nothing active and nothing ever
\* submitted, the reading being at or above the ceiling
C28_NothingSubmitted ==
    /\ last.op = "loop"
    /\ last.queued = last.book_dirs
    /\ last.queued # <<>>
    /\ last.active = {}
    /\ last.cpu_load >= cpu_ceiling

\* C28: run_batch returns if readings below the ceiling go on being observed while
\* books are queued
C28_ReturnsWhenLoadFalls ==
    []<>(last.queued # <<>> => (last.op = "submit" /\ last.cpu_load < cpu_ceiling))
        => <>(last.op = "returned")


(***************************************************************************)
(* The reorganize lock: PipelineDB.acquire_reorganize_lock and             *)
(* release_reorganize_lock, and the batch branch of PipelineRunner.run     *)
(* that takes the lock                                                     *)
(*                                                                         *)
(* Each process is one command working on the same database.  last holds   *)
(* the pid in the row of pipeline_locks ("" without a row), the            *)
(* connections left inside a write transaction, and for every process its  *)
(* user, its flags, its place in run and what its lock calls gave.  The    *)
(* statements of one acquire run under the write lock its INSERT takes, so *)
(* an acquire is one step.                                                 *)
(***************************************************************************)

Processes == {"p1", "p2", "p3"}

Users == {"alice", "bob"}

\* the processes that have neither exited nor been killed
Alive(st) == {p \in Processes : st.pc[p] \notin {"exited", "killed"}}

\* os.kill(pid, 0) called by a process: "" when the signal may be sent, else the OSError
os_kill(st, caller, pid) ==
    IF pid \notin Alive(st) THEN "ProcessLookupError"
    ELSE IF st.owner[pid] # st.owner[caller] THEN "PermissionError"
    ELSE ""

\* another connection is inside a write transaction: a write waits busy_timeout and
\* then fails
DatabaseLocked(st, p) == st.open_txn \ {p} # {}

\* acquire_reorganize_lock: the INSERT, and after IntegrityError the SELECT, os.kill and
\* the UPDATE; False is returned without commit or rollback
acquire_reorganize_lock(st, p) ==
    IF DatabaseLocked(st, p)
    THEN [row |-> st.row, open_txn |-> st.open_txn, ret |-> FALSE,
          raised |-> "OperationalError"]
    ELSE IF st.row = ""
    THEN [row |-> p, open_txn |-> st.open_txn \ {p}, ret |-> TRUE, raised |-> ""]
    ELSE IF os_kill(st, p, st.row) # ""
    THEN [row |-> p, open_txn |-> st.open_txn \ {p}, ret |-> TRUE, raised |-> ""]
    ELSE [row |-> st.row, open_txn |-> st.open_txn \cup {p}, ret |-> FALSE, raised |-> ""]

\* release_reorganize_lock: DELETE and commit
release_reorganize_lock(st, p) ==
    IF DatabaseLocked(st, p)
    THEN [row |-> st.row, open_txn |-> st.open_txn, raised |-> "OperationalError"]
    ELSE [row |-> "", open_txn |-> st.open_txn \ {p}, raised |-> ""]

\* if self.reorganize and not skip_lock, before the try and in the finally
ReleasesLock(reorganize, skip_lock) == reorganize /\ ~skip_lock

TakesLock(reorganize, skip_lock) == reorganize /\ ~skip_lock

\* three commands about to enter the batch branch, no lock row
InitLock ==
    /\ InitIndex(EmptyLibrary, NoAliasFile, TRUE)
    /\ config = NoConfig
    /\ \E owner \in [Processes -> Users], reorganize \in [Processes -> BOOLEAN],
          skip_lock \in [Processes -> BOOLEAN] :
          last = [op |-> "lock", row |-> "", open_txn |-> {}, owner |-> owner,
                  reorganize |-> reorganize, skip_lock |-> skip_lock,
                  pc |-> [p \in Processes |-> "start"],
                  acquired |-> [p \in Processes |-> FALSE],
                  release_calls |-> [p \in Processes |-> 0],
                  released |-> [p \in Processes |-> FALSE]]

LockStep == UNCHANGED calls /\ IndexUnchanged

\* the runner with what its acquire gave: an exception leaves run, False returns, True
\* enters the try
AcquireWith(p, r) ==
    last' = [last EXCEPT
               !.row = r.row,
               !.open_txn = r.open_txn,
               !.acquired[p] = r.ret,
               !.pc[p] = IF r.raised # "" THEN "raised"
                         ELSE IF r.ret THEN "try"
                         ELSE "returned"]

\* Acquire reorganize lock for batch operations
AcquireLock(p) ==
    /\ last.pc[p] = "start"
    /\ IF TakesLock(last.reorganize[p], last.skip_lock[p])
       THEN AcquireWith(p, acquire_reorganize_lock(last, p))
       ELSE last' = [last EXCEPT !.pc[p] = "try"]
    /\ LockStep

\* the finally clause with what its release gave
ReleaseWith(p, r) ==
    last' = [last EXCEPT
               !.row = r.row,
               !.open_txn = r.open_txn,
               !.release_calls[p] = @ + 1,
               !.released[p] = r.raised = "",
               !.pc[p] = "raised"]

\* the try block: LibraryIndex(nfs_output_dir, db=self.db) raises TypeError, the
\* constructor taking no db, and the finally clause runs
BuildIndex(p) ==
    /\ last.pc[p] = "try"
    /\ IF ReleasesLock(last.reorganize[p], last.skip_lock[p])
       THEN ReleaseWith(p, release_reorganize_lock(last, p))
       ELSE last' = [last EXCEPT !.pc[p] = "raised"]
    /\ LockStep

\* the command ends after run has returned or raised; its connection is closed
ProcessExits(p) ==
    /\ last.pc[p] \in {"returned", "raised"}
    /\ last' = [last EXCEPT !.pc[p] = "exited", !.open_txn = @ \ {p}]
    /\ LockStep

\* a process is killed inside the try block
ProcessKilled(p) ==
    /\ last.pc[p] = "try"
    /\ last' = [last EXCEPT !.pc[p] = "killed", !.open_txn = @ \ {p}]
    /\ LockStep

NextLock ==
    \/ \E p \in Processes : AcquireLock(p)
    \/ \E p \in Processes : BuildIndex(p)
    \/ \E p \in Processes : ProcessExits(p)
    \/ \E p \in Processes : ProcessKilled(p)

SpecLock == InitLock /\ [][NextLock]_vars

\* the live processes whose acquire returned True and whose release has not gone through
Holders == {p \in Alive(last) : last.acquired[p] /\ ~last.released[p]}

\* the processes that are out of the batch branch by a return or an exception
OutOfBatch == {p \in Processes : last.pc[p] \in {"returned", "raised", "exited"}}

\* C23, as stated: at most one live process holds the reorganize lock at a time
C23_MutualExclusion == Cardinality(Holders) <= 1

\* C23: two live processes inside the try block, each after an acquire that returned
\* True, the second one belonging to another user than the first
C23_LockStolenFromLive ==
    \E p, q \in Processes :
        /\ p # q
        /\ last.pc[p] = "try" /\ last.acquired[p]
        /\ last.pc[q] = "try" /\ last.acquired[q]
        /\ last.owner[p] # last.owner[q]
        /\ last.row = q

\* C23: among processes of one user at most one live process holds the lock
C23_ExclusiveForOneUser ==
    (\A p, q \in Processes : last.owner[p] = last.owner[q]) => Cardinality(Holders) <= 1

\* C23: a process took the lock over from a killed holder of the same user
C23_TakenFromDead ==
    \E p, q \in Processes :
        /\ \A a, b \in Processes : last.owner[a] = last.owner[b]
        /\ last.pc[p] = "killed" /\ last.acquired[p]
        /\ last.pc[q] = "try" /\ last.acquired[q]
        /\ last.row = q

\* C29, as stated: a runner that acquired the lock has released it when it is out of
\* the batch, and a runner that did not acquire it made no release
C29_ReleasedOnEveryWayOut ==
    \A p \in OutOfBatch :
        /\ last.acquired[p] => last.released[p]
        /\ ~last.acquired[p] => last.release_calls[p] = 0

\* C29: a runner that acquired the lock is out of the batch after a release that raised,
\* and the lock row still names it
C29_LockLeftBehind ==
    \E p \in Processes :
        /\ last.pc[p] = "raised"
        /\ last.acquired[p]
        /\ last.release_calls[p] = 1
        /\ ~last.released[p]
        /\ last.row = p

\* C29: out of the batch, a runner has called release once if it acquired the lock and
\* never if it did not
C29_ReleaseCalledIffAcquired ==
    \A p \in OutOfBatch : last.release_calls[p] = (IF last.acquired[p] THEN 1 ELSE 0)

\* C29: one runner out of the batch after its release, another returned without the lock
C29_Witness ==
    \E p, q \in Processes :
        /\ last.pc[p] \in {"raised", "exited"} /\ last.acquired[p] /\ last.released[p]
        /\ last.pc[q] \in {"returned", "exited"}
        /\ last.reorganize[q] /\ ~last.skip_lock[q]
        /\ ~last.acquired[q] /\ last.release_calls[q] = 0

=============================================================================
